---- MODULE Spec2Model ----
(***************************************************************************)
(* Model of the progress / unlock state-derivation engine of zane-omega:   *)
(* the progress calculator (lib/csv), the lesson unlock scheduler          *)
(* (lib/lessonUnlock), the completion derivations of the course, chapter   *)
(* and lesson pages over the two browser stores, and the cached CSV fetch. *)
(***************************************************************************)
EXTENDS Integers, Sequences, FiniteSets, TLC

VARIABLES
    \* ---- progress calculator (calculateProgress called on its inputs)
    pTasks,             \* the Task[] argument: sequence of [id, xp]
    pCompleted,         \* the completedTaskIds argument: sequence of ids
    pStats,             \* the returned statistics, or NoValue before the call
    \* ---- LessonUnlockSystem
    tzOffset,           \* minutes the browser's local time is ahead of UTC
    courseStartDate,    \* this.courseStartDate (an instant)
    unlockSchedule,     \* this.unlockSchedule: lesson id -> schedule entry
    unlockCall,         \* the last query made of the system and its result
    \* ---- the task sheet, the browser stores and the open page
    sheetRows,          \* the task rows the published sheet holds now
    csvCache,           \* rows held under CACHE_KEY, <<>> when absent
    loadedRows,         \* rows the open page was loaded with, <<>> before
    lessonHasLearning,  \* chapter page state: lesson ids mapped to true
    lsCompletedTasks,   \* localStorage course_<id>_completed_tasks
    ssCompletedTasks,   \* sessionStorage course_<id>_completed_tasks
    lsCompletedLessons, \* localStorage course_<id>_completed_lessons
    lsLearningDone,     \* localStorage lesson_<id>_learningDone = 'true'
    lsWatchedTopics,    \* localStorage lesson_<id>_watchedTopics
    lsQuizPassed,       \* localStorage lesson_<id>_quizPassed
    reconcileCall,      \* a lesson handed to the four derivations, results
    taskAction,         \* a handleTaskCompleted in progress, step by step
    lastAction,         \* what the last user action wrote and dispatched
    lsQuizScore,        \* localStorage lesson_<id>_quizScore, NoValue when unset
    \* ---- the cached fetch of a data source
    now,                \* Date.now(), in milliseconds
    published,          \* source -> version of the rows the server serves
    cache,              \* source -> cache entry [data, timestamp] or NoValue
    calls,              \* the fetch calls made so far, in order
    \* ---- one call of a sheet function: its argument and what it returned
    orgRows,            \* the task rows handed to organizeTasks
    orgCall,            \* [courses] it returned, NoValue before the call
    csvMatrix,          \* the rows of fields a sheet is written out from
    csvText,            \* the text handed to parseCSV, a sequence of characters
    csvScan,            \* the scanner of a parseCSV call in progress
    csvRows,            \* [lib, rows] it returned, NoValue before the call
    quizCallRows,       \* the quiz rows handed to organizeQuiz
    quizOut,            \* its questions and warnings, NoValue before the call
    \* ---- the page that is open
    taskPage,           \* the state of the TaskPage component, NoValue when closed
    ssVisited,          \* sessionStorage task_<id>_resource_<rid>_visited keys
    route,              \* the route the router shows, NoValue before the first
    nowDate             \* the instant new Date() gives

progressVars == <<pTasks, pCompleted, pStats>>
unlockVars   == <<tzOffset, courseStartDate, unlockSchedule, unlockCall>>
storeVars    == <<sheetRows, csvCache, loadedRows, lessonHasLearning,
                 lsCompletedTasks, ssCompletedTasks, lsCompletedLessons,
                 lsLearningDone, lsWatchedTopics, lsQuizPassed, reconcileCall,
                 taskAction, lastAction, lsQuizScore>>
fetchVars    == <<now, published, cache, calls>>
sheetVars    == <<orgRows, orgCall, csvMatrix, csvText, csvScan, csvRows,
                 quizCallRows, quizOut>>
pageVars     == <<taskPage, ssVisited, route, nowDate>>
vars         == <<progressVars, unlockVars, storeVars, fetchVars, sheetVars,
                 pageVars>>

NoValue == [none |-> TRUE]

\* ------------------------------------------------------------------ helpers

Range(s) == {s[i] : i \in DOMAIN s}

\* Array.prototype.includes
Includes(s, x) == \E i \in DOMAIN s : s[i] = x

\* All sequences over S of length at most n
SeqUpTo(S, n) == UNION {[1..k -> S] : k \in 0..n}

RECURSIVE SumXP(_)
\* tasks.reduce((sum, task) => sum + task.xp, 0)
SumXP(ts) == IF ts = <<>> THEN 0 ELSE ts[1].xp + SumXP(Tail(ts))

\* ======================================================================
\* Progress calculator                                     (lib/csv.ts)
\* ======================================================================

MaxTasks == 2
MaxCompletedIds == 2

TaskIdPool == {"t1", "t2", "t3"}
ForeignIds == {"zz"}
XPPool == {0, 10, 25}

\* the division carried out whatever the divisor
PercentageUnguarded(part, whole) == <<part * 100, whole>>

\* completionPercentage / xpPercentage: (part / whole) * 100, 0 when whole is
\* not positive.  Kept as the exact fraction <<numerator, denominator>>.
Percentage(part, whole) ==
    IF whole > 0 THEN <<part * 100, whole>> ELSE <<0, 1>>

\* the version before the "FIXED" comments: counts every completed id
calculateProgressUnfiltered(tasks, completedTaskIds) ==
    LET totalTasks == Len(tasks)
        totalXP == SumXP(tasks)
        completedTasksInThisSet == SelectSeq(tasks, LAMBDA t : Includes(completedTaskIds, t.id))
        completedTasks == Len(completedTaskIds)
        earnedXP == SumXP(completedTasksInThisSet)
    IN  [ totalTasks |-> totalTasks,
          completedTasks |-> completedTasks,
          completionPercentage |-> Percentage(completedTasks, totalTasks),
          totalXP |-> totalXP,
          earnedXP |-> earnedXP,
          xpPercentage |-> Percentage(earnedXP, totalXP) ]

calculateProgress(tasks, completedTaskIds) ==
    LET totalTasks == Len(tasks)
        totalXP == SumXP(tasks)
        completedTasksInThisSet == SelectSeq(tasks, LAMBDA t : Includes(completedTaskIds, t.id))
        completedTasks == Len(completedTasksInThisSet)
        earnedXP == SumXP(completedTasksInThisSet)
    IN  [ totalTasks |-> totalTasks,
          completedTasks |-> completedTasks,
          completionPercentage |-> Percentage(completedTasks, totalTasks),
          totalXP |-> totalXP,
          earnedXP |-> earnedXP,
          xpPercentage |-> Percentage(earnedXP, totalXP) ]

SheetIdle ==
    /\ orgRows = <<>>
    /\ orgCall = NoValue
    /\ csvMatrix = <<>>
    /\ csvText = <<>>
    /\ csvScan = NoValue
    /\ csvRows = NoValue
    /\ quizCallRows = <<>>
    /\ quizOut = NoValue

PageIdle ==
    /\ taskPage = NoValue
    /\ ssVisited = {}
    /\ route = NoValue
    /\ nowDate = 0

ProgressIdle ==
    /\ pTasks = <<>>
    /\ pCompleted = <<>>
    /\ pStats = NoValue

\* the arguments calculateProgress is called with
ProgressInputs ==
    /\ pTasks \in SeqUpTo([id : TaskIdPool, xp : XPPool], MaxTasks)
    /\ pCompleted \in SeqUpTo(TaskIdPool \cup ForeignIds, MaxCompletedIds)
    /\ pStats = NoValue

CalculateProgressCall ==
    /\ pStats = NoValue
    /\ pStats' = calculateProgress(pTasks, pCompleted)
    /\ UNCHANGED <<pTasks, pCompleted, unlockVars, storeVars, fetchVars,
                   sheetVars, pageVars>>

\* ======================================================================
\* Lesson unlock scheduler                          (lib/lessonUnlock.js)
\* ======================================================================

\* A Date is an instant: minutes since 2025-07-24T00:00Z.  Its calendar
\* fields are read in the browser's local time zone (tzOffset).
MinutesPerDay == 1440

\* getDay() of the local calendar day 0 (2025-07-24, a Thursday; Sunday = 0)
WeekdayOfDayZero == 4

TzOffsets == {-300, 0, 330}

\* new Date('YYYY-MM-DD'): a date-only string is midnight UTC of that day
DateFromISODay(day) == day * MinutesPerDay

LocalDay(t, tz) == (t + tz) \div MinutesPerDay
LocalTimeOfDay(t, tz) == (t + tz) % MinutesPerDay

\* Date.prototype.getDay (local)
GetDay(t, tz) == (WeekdayOfDayZero + LocalDay(t, tz)) % 7

\* date.setHours(0, 0, 0, 0): local midnight of the date's local day
SetHoursZero(t, tz) == LocalDay(t, tz) * MinutesPerDay - tz

\* date.setDate(date.getDate() + 1): same local time on the next local day
AddOneDay(t) == t + MinutesPerDay

\* the instant of a local calendar day and time of day
LocalInstant(day, tod, tz) == day * MinutesPerDay + tod - tz

\* ---- generateLessonIds
FirstChapterLessons == 9
OtherChapterLessons == 10
LongChapter == 5
LongChapterLessons == 11
LastChapter == 12

\* `les_${chapter}_${lesson}`; any other id string s is <<s, 0, 0>>
LesId(chapter, lesson) == <<"les", chapter, lesson>>
PlainId(s) == <<s, 0, 0>>

LessonsInChapter(chapter) ==
    IF chapter = 1 THEN FirstChapterLessons
    ELSE IF chapter = LongChapter THEN LongChapterLessons
    ELSE OtherChapterLessons

RECURSIVE ChapterLessonIds(_, _)
ChapterLessonIds(chapter, upTo) ==
    IF upTo = 0 THEN <<>>
    ELSE Append(ChapterLessonIds(chapter, upTo - 1),
                [id |-> LesId(chapter, upTo), chapterNumber |-> chapter, lessonNumber |-> upTo])

RECURSIVE LessonsThroughChapter(_)
LessonsThroughChapter(chapter) ==
    IF chapter = 0 THEN <<>>
    ELSE LessonsThroughChapter(chapter - 1) \o ChapterLessonIds(chapter, LessonsInChapter(chapter))

generateLessonIds ==
    LET ls == LessonsThroughChapter(LastChapter)
    IN  [i \in DOMAIN ls |-> [id |-> ls[i].id,
                              chapterNumber |-> ls[i].chapterNumber,
                              lessonNumber |-> ls[i].lessonNumber,
                              globalIndex |-> i - 1]]

\* ---- generateUnlockSchedule
RECURSIVE SkipSundays(_, _)
\* do { currentDate.setDate(currentDate.getDate() + 1) } while (getDay() === 0)
SkipSundays(t, tz) ==
    LET next == AddOneDay(t)
    IN  IF GetDay(next, tz) = 0 THEN SkipSundays(next, tz) ELSE next

\* a bug that advances one day and never looks at the weekday
NextUnlockDateNoSkip(t, tz) == AddOneDay(t)

NextUnlockDate(t, tz) == SkipSundays(t, tz)

RECURSIVE ForEachLesson(_, _, _, _)
\* lessons.forEach from index 1 on: dates holds the unlock dates assigned so
\* far, currentDate the running date, n the number of lessons
ForEachLesson(dates, currentDate, n, tz) ==
    IF Len(dates) >= n THEN dates
    ELSE LET next == NextUnlockDate(currentDate, tz)
         IN  ForEachLesson(Append(dates, next), next, n, tz)

\* the unlock date of lessons[1..n], in order; the first is the start date
UnlockDates(n, start, tz) ==
    IF n = 0 THEN <<>> ELSE ForEachLesson(<<start>>, start, n, tz)

generateUnlockSchedule(start, tz) ==
    LET lessons == generateLessonIds
        dates == UnlockDates(Len(lessons), start, tz)
        ids == {lessons[i].id : i \in DOMAIN lessons}
        IndexOf(id) == CHOOSE i \in DOMAIN lessons :
                          /\ lessons[i].id = id
                          /\ \A j \in DOMAIN lessons : lessons[j].id = id => j <= i
    IN  [id \in ids |->
            [ id |-> id,
              chapterNumber |-> lessons[IndexOf(id)].chapterNumber,
              lessonNumber |-> lessons[IndexOf(id)].lessonNumber,
              globalIndex |-> lessons[IndexOf(id)].globalIndex,
              unlockDate |-> dates[IndexOf(id)],
              isFirstLesson |-> (IndexOf(id) = 1) ]]

\* ---- property lookup on the schedule object
\* The schedule is a plain object literal ({}), so a key it does not own is
\* looked up on Object.prototype.
ObjectPrototypeKeys ==
    { PlainId(s) : s \in {"constructor", "toString", "valueOf", "hasOwnProperty", "__proto__"} }

\* this.unlockSchedule[lessonId]
ScheduleLookup(schedule, lessonId) ==
    IF lessonId \in DOMAIN schedule
        THEN [kind |-> "entry", entry |-> schedule[lessonId]]
    ELSE IF lessonId \in ObjectPrototypeKeys
        THEN [kind |-> "inherited"]
    ELSE [kind |-> "undefined"]

\* ---- queries
\* a bug that compares the instants without stripping the time of day
isLessonUnlockedByIdNoTruncate(schedule, tz, lessonId, currentDate) ==
    LET lesson == ScheduleLookup(schedule, lessonId)
    IN  IF lesson.kind = "undefined" THEN TRUE
        ELSE IF lesson.kind = "inherited" THEN FALSE
        ELSE currentDate >= lesson.entry.unlockDate

isLessonUnlockedById(schedule, tz, lessonId, currentDate) ==
    LET lesson == ScheduleLookup(schedule, lessonId)
    IN  IF lesson.kind = "undefined" THEN TRUE
        \* a truthy value without unlockDate: new Date(undefined) is an
        \* Invalid Date and every comparison with it is false
        ELSE IF lesson.kind = "inherited" THEN FALSE
        ELSE LET today == SetHoursZero(currentDate, tz)
                 unlockDate == SetHoursZero(lesson.entry.unlockDate, tz)
             IN  today >= unlockDate

\* lesson ? lesson.unlockDate : null
getLessonUnlockDate(schedule, lessonId) ==
    LET lesson == ScheduleLookup(schedule, lessonId)
    IN  IF lesson.kind = "undefined" THEN [kind |-> "null"]
        ELSE IF lesson.kind = "inherited" THEN [kind |-> "undefined"]
        ELSE [kind |-> "date", date |-> lesson.entry.unlockDate]

\* Math.ceil(x / d) for d > 0
CeilDiv(x, d) == -((-x) \div d)

Max(a, b) == IF a >= b THEN a ELSE b

getDaysUntilUnlock(schedule, tz, lessonId, currentDate) ==
    LET unlockDate == getLessonUnlockDate(schedule, lessonId)
    IN  IF unlockDate.kind # "date" THEN 0
        ELSE LET today == SetHoursZero(currentDate, tz)
                 unlock == SetHoursZero(unlockDate.date, tz)
                 diffTime == unlock - today
                 diffDays == CeilDiv(diffTime, MinutesPerDay)
             IN  Max(0, diffDays)

\* a bug that requires every lesson of the chapter to be unlocked
isChapterUnlockedEvery(schedule, tz, chapterNumber, lessons, currentDate) ==
    \A i \in DOMAIN lessons : isLessonUnlockedById(schedule, tz, lessons[i].id, currentDate)

\* lessons.some(lesson => this.isLessonUnlockedById(lesson.id, currentDate))
isChapterUnlocked(schedule, tz, chapterNumber, lessons, currentDate) ==
    \E i \in DOMAIN lessons : isLessonUnlockedById(schedule, tz, lessons[i].id, currentDate)

\* ---- inputs of the queries
MaxStartDay == 6          \* course start dates 2025-07-24 .. +MaxStartDay days
QueryWindow == 2          \* reference days this far around a lesson's unlock day
FarDay == 400             \* a reference day after every unlock day
MaxChapterDay == 12       \* reference days 0..MaxChapterDay for chapter queries
MaxChapterLessons == 2    \* lessons handed to isChapterUnlocked
MaxChapterNumber == 2

QueryTimesOfDay == {0, 1439}

\* lesson ids that are in no schedule
UnscheduledIds ==
    { LesId(1, FirstChapterLessons + 1), LesId(LastChapter + 1, 1), PlainId("intro") }
        \cup ObjectPrototypeKeys

\* the lesson ids handed to isChapterUnlocked
ChapterQueryIds ==
    { LesId(1, 1), LesId(1, 2), LesId(LastChapter, OtherChapterLessons), PlainId("intro") }

\* the local days a query about lessonId is made on
QueryDays(schedule, tz, lessonId) ==
    {-2, FarDay} \cup
    ( IF lessonId \in DOMAIN schedule
        THEN { LocalDay(schedule[lessonId].unlockDate, tz) + k : k \in (-QueryWindow)..QueryWindow }
        ELSE 0..QueryWindow )

QueryDates(schedule, tz, lessonId) ==
    { LocalInstant(day, tod, tz) : day \in QueryDays(schedule, tz, lessonId), tod \in QueryTimesOfDay }

ChapterQueryDates(tz) ==
    { LocalInstant(day, tod, tz) : day \in ((-2)..MaxChapterDay) \cup {FarDay}, tod \in QueryTimesOfDay }

UnlockIdle ==
    /\ tzOffset = 0
    /\ courseStartDate = DateFromISODay(0)
    /\ unlockSchedule = generateUnlockSchedule(DateFromISODay(0), 0)
    /\ unlockCall = NoValue

\* new LessonUnlockSystem(courseStartDate) in a browser of some time zone
UnlockConstruct ==
    /\ tzOffset \in TzOffsets
    /\ \E day \in 0..MaxStartDay : courseStartDate = DateFromISODay(day)
    /\ unlockSchedule = generateUnlockSchedule(courseStartDate, tzOffset)
    /\ unlockCall = NoValue

IsLessonUnlockedCall ==
    /\ unlockCall = NoValue
    /\ \E lessonId \in DOMAIN unlockSchedule \cup UnscheduledIds :
       \E d \in QueryDates(unlockSchedule, tzOffset, lessonId) :
          unlockCall' = [ op |-> "isLessonUnlocked", lessonId |-> lessonId, date |-> d,
                          result |-> isLessonUnlockedById(unlockSchedule, tzOffset, lessonId, d) ]
    /\ UNCHANGED <<tzOffset, courseStartDate, unlockSchedule, progressVars, pageVars, sheetVars,
                   storeVars, fetchVars>>

GetLessonUnlockDateCall ==
    /\ unlockCall = NoValue
    /\ \E lessonId \in DOMAIN unlockSchedule \cup UnscheduledIds :
          unlockCall' = [ op |-> "getLessonUnlockDate", lessonId |-> lessonId,
                          result |-> getLessonUnlockDate(unlockSchedule, lessonId) ]
    /\ UNCHANGED <<tzOffset, courseStartDate, unlockSchedule, progressVars, pageVars, sheetVars,
                   storeVars, fetchVars>>

GetDaysUntilUnlockCall ==
    /\ unlockCall = NoValue
    /\ \E lessonId \in DOMAIN unlockSchedule \cup UnscheduledIds :
       \E d \in QueryDates(unlockSchedule, tzOffset, lessonId) :
          unlockCall' = [ op |-> "getDaysUntilUnlock", lessonId |-> lessonId, date |-> d,
                          result |-> getDaysUntilUnlock(unlockSchedule, tzOffset, lessonId, d) ]
    /\ UNCHANGED <<tzOffset, courseStartDate, unlockSchedule, progressVars, pageVars, sheetVars,
                   storeVars, fetchVars>>

IsChapterUnlockedCall ==
    /\ unlockCall = NoValue
    /\ \E chapterNumber \in 1..MaxChapterNumber,
          lessons \in SeqUpTo([id : ChapterQueryIds], MaxChapterLessons),
          d \in ChapterQueryDates(tzOffset) :
          unlockCall' = [ op |-> "isChapterUnlocked", chapterNumber |-> chapterNumber,
                          lessons |-> lessons, date |-> d,
                          result |-> isChapterUnlocked(unlockSchedule, tzOffset,
                                                       chapterNumber, lessons, d) ]
    /\ UNCHANGED <<tzOffset, courseStartDate, unlockSchedule, progressVars, pageVars, sheetVars,
                   storeVars, fetchVars>>

\* ======================================================================
\* Course data                                (lib/csv.ts, lib/learning.ts)
\* ======================================================================

\* [...new Set(arr)]: first occurrences, in order
Dedup(s) ==
    LET F[i \in 0..Len(s)] ==
            IF i = 0 THEN <<>>
            ELSE IF Includes(F[i - 1], s[i]) THEN F[i - 1]
                 ELSE Append(F[i - 1], s[i])
    IN  F[Len(s)]

\* arr.map(f)
MapSeq(s, F(_)) == [i \in DOMAIN s |-> F(s[i])]

\* arr.push(x) without the test
PushAlways(arr, x) == Append(arr, x)

\* if (!arr.includes(x)) arr.push(x)
PushIfAbsent(arr, x) == IF Includes(arr, x) THEN arr ELSE Append(arr, x)

\* arr.find(pred), NoValue for undefined
Find(s, P(_)) ==
    IF \E i \in DOMAIN s : P(s[i])
    THEN s[CHOOSE i \in DOMAIN s : P(s[i]) /\ \A j \in 1..(i - 1) : ~P(s[j])]
    ELSE NoValue

TaskRow(courseId, chapterId, lessonId, taskId, xp) ==
    [courseId |-> courseId, courseName |-> courseId,
     chapterId |-> chapterId, chapterName |-> chapterId,
     lessonId |-> lessonId, lessonName |-> lessonId,
     taskId |-> taskId, xp |-> xp]

\* the published task sheet: lesson L1 has one task, lesson L2 has one
\* task and, after the sheet is edited, a second one
TaskSheetV1 ==
    << TaskRow("cA", "ch1", "L1", "t1", 10),
       TaskRow("cA", "ch1", "L2", "t3", 5) >>
TaskSheetV2 == Append(TaskSheetV1, TaskRow("cA", "ch1", "L2", "t4", 5))

\* the topics sheet: lesson L1 has learning content, lesson L2 has none
TopicSheet ==
    << [lessonId |-> "L1", topicId |-> "p1", order |-> 1],
       [lessonId |-> "L1", topicId |-> "p2", order |-> 2] >>

\* the quiz sheet: five questions for lesson L1
QuizSheet == [i \in 1..5 |-> [lessonId |-> "L1", questionId |-> i]]
\* the quiz sheet as published with three questions for lesson L1
QuizSheetShort == [i \in 1..3 |-> [lessonId |-> "L1", questionId |-> i]]
\* the versions of the quiz sheet a page load may fetch
QuizSheets == {QuizSheet, QuizSheetShort}

SheetCourseIds == {"cA"}
\* :courseId of the learning route is taken from the URL as it is
RouteCourseIds == {"cA", "cX"}
LessonIds == {"L1", "L2"}

chapterKey(row) == row.courseId \o "-" \o row.chapterId
lessonKey(row) == row.courseId \o "-" \o row.chapterId \o "-" \o row.lessonId

TaskOfRow(row) ==
    [id |-> row.taskId, lessonId |-> row.lessonId,
     chapterId |-> row.chapterId, courseId |-> row.courseId, xp |-> row.xp]

\* organizeTasks: courses, chapters and lessons are created by the first row
\* that carries their key and are kept in order of creation
organizeTasks(rows) ==
    LET CourseIdOf(r) == r.courseId
        FirstWithChapterKey(k) == Find(rows, LAMBDA r : chapterKey(r) = k)
        FirstWithLessonKey(k) == Find(rows, LAMBDA r : lessonKey(r) = k)
        courseIds == Dedup(MapSeq(rows, CourseIdOf))
        chapterKeys == Dedup(MapSeq(rows, chapterKey))
        lessonKeys == Dedup(MapSeq(rows, lessonKey))
        LessonOf(k) ==
            LET r == FirstWithLessonKey(k)
            IN  [id |-> r.lessonId, name |-> r.lessonName,
                 chapterId |-> r.chapterId, courseId |-> r.courseId,
                 tasks |-> MapSeq(SelectSeq(rows, LAMBDA x : lessonKey(x) = k),
                                  TaskOfRow)]
        ChapterOf(k) ==
            LET r == FirstWithChapterKey(k)
            IN  [id |-> r.chapterId, name |-> r.chapterName,
                 courseId |-> r.courseId,
                 lessons |-> MapSeq(
                     SelectSeq(lessonKeys,
                         LAMBDA lk : chapterKey(FirstWithLessonKey(lk)) = k),
                     LessonOf)]
        CourseOf(c) ==
            [id |-> c,
             name |-> Find(rows, LAMBDA r : r.courseId = c).courseName,
             chapters |-> MapSeq(
                 SelectSeq(chapterKeys,
                     LAMBDA ck : FirstWithChapterKey(ck).courseId = c),
                 ChapterOf)]
    IN  MapSeq(courseIds, CourseOf)

\* organizeTasks of the rows a fetch can return, computed once
OrganizedSheets ==
    [rows \in {<<>>, TaskSheetV1, TaskSheetV2} |-> organizeTasks(rows)]

findChapter(courses, courseId, chapterId) ==
    LET course == Find(courses, LAMBDA c : c.id = courseId)
    IN  IF course = NoValue THEN NoValue
        ELSE Find(course.chapters, LAMBDA ch : ch.id = chapterId)

findLesson(courses, courseId, chapterId, lessonId) ==
    LET chapter == findChapter(courses, courseId, chapterId)
    IN  IF chapter = NoValue THEN NoValue
        ELSE Find(chapter.lessons, LAMBDA l : l.id = lessonId)

\* chapter.lessons.flatMap(l => l.tasks)
RECURSIVE FlatTasks(_)
FlatTasks(lessons) ==
    IF lessons = <<>> THEN <<>>
    ELSE Head(lessons).tasks \o FlatTasks(Tail(lessons))

findTask(courses, courseId, chapterId, taskId) ==
    LET chapter == findChapter(courses, courseId, chapterId)
    IN  IF chapter = NoValue THEN NoValue
        ELSE Find(FlatTasks(chapter.lessons), LAMBDA t : t.id = taskId)

\* getTopicsForLesson(organizeTopics(rows), lessonId)
getTopicsForLesson(topicRows, lessonId) ==
    SelectSeq(topicRows, LAMBDA t : t.lessonId = lessonId)

getQuizForLesson(quizRows, lessonId) ==
    SelectSeq(quizRows, LAMBDA q : q.lessonId = lessonId)

\* the outcomes of one fetchTasks call: the cached rows, or the rows the
\* sheet holds now (which replace the cache), or a thrown error
FetchTasksOutcomes(cached, sheet) ==
    (IF cached = <<>> THEN {}
     ELSE {[ok |-> TRUE, rows |-> cached, cache |-> cached]})
    \cup {[ok |-> TRUE, rows |-> sheet, cache |-> sheet],
          [ok |-> FALSE, rows |-> <<>>, cache |-> cached]}

\* ---- one call of organizeTasks on a sheet of a few rows

MaxOrgRows == 3

\* course and chapter ids as a sheet may spell them, with and without the
\* '-' the map keys are joined with
OrgCourseIds == {"a", "a-b"}
OrgChapterIds == {"c", "b-c"}
OrgLessonIds == {"L1", "L2"}

\* row i of a sheet: the ids picked for it, a task id and names of its own
OrgRow(pick, i) ==
    [courseId |-> pick.courseId, courseName |-> "course " \o ToString(i),
     chapterId |-> pick.chapterId, chapterName |-> "chapter " \o ToString(i),
     lessonId |-> pick.lessonId, lessonName |-> "lesson " \o ToString(i),
     taskId |-> "t" \o ToString(i), xp |-> 10]

OrganizeInputs ==
    /\ orgRows \in
         { [i \in DOMAIN picks |-> OrgRow(picks[i], i)] :
             picks \in SeqUpTo([courseId : OrgCourseIds,
                                chapterId : OrgChapterIds,
                                lessonId : OrgLessonIds], MaxOrgRows) }
    /\ orgCall = NoValue

OrganizeTasksCall ==
    /\ orgCall = NoValue
    /\ orgCall' = [courses |-> organizeTasks(orgRows)]
    /\ UNCHANGED <<orgRows, csvMatrix, csvText, csvScan, csvRows,
                   quizCallRows, quizOut>>
    /\ UNCHANGED <<progressVars, pageVars, unlockVars, storeVars, fetchVars>>

\* ======================================================================
\* parseCSV                                   (lib/csv.ts, lib/learning.ts)
\* ======================================================================

\* a text is a sequence of characters, a field likewise
QUOTE == "\""
COMMA == ","
CR == "\r"
LF == "\n"
BOM == "BOM"

\* what String.prototype.trim removes: white space, line ends and U+FEFF
TrimChars == {" ", CR, LF, BOM}

RECURSIVE TrimStart(_)
TrimStart(f) ==
    IF f # <<>> /\ Head(f) \in TrimChars THEN TrimStart(Tail(f)) ELSE f

RECURSIVE TrimEnd(_)
TrimEnd(f) ==
    IF f # <<>> /\ f[Len(f)] \in TrimChars
    THEN TrimEnd(SubSeq(f, 1, Len(f) - 1))
    ELSE f

Trim(f) == TrimEnd(TrimStart(f))

\* csvText.charCodeAt(0) === 0xfeff, csvText.replace(/^\uFEFF/, '')
StripBOM(text) == IF text # <<>> /\ Head(text) = BOM THEN Tail(text) ELSE text

\* the parser of lib/csv.ts keeps the fields as scanned, the parser of
\* lib/learning.ts trims each field of a row when the row is pushed
RowAsPushed(lib, row) ==
    IF lib = "learning" THEN [k \in DOMAIN row |-> Trim(row[k])] ELSE row

\* the scanner before the first character
ScanStart(lib, text) ==
    [lib |-> lib, text |-> StripBOM(text), i |-> 1, inQuotes |-> FALSE,
     curField |-> <<>>, curRow |-> <<>>, rows |-> <<>>]

\* an always-splitting scanner
SplitsAlways(s, ch) == ch \in {COMMA, CR, LF}

\* a comma or a line end ends the field only outside quotes
Splits(s, ch) == ~s.inQuotes /\ ch \in {COMMA, CR, LF}

\* one pass of the loop over the characters
ScanStep(s) ==
    LET ch == s.text[s.i]
        hasNext == s.i + 1 <= Len(s.text)
        nextChar == IF hasNext THEN s.text[s.i + 1] ELSE NoValue
    IN  IF ch = QUOTE
        THEN IF s.inQuotes /\ hasNext /\ nextChar = QUOTE
             THEN [s EXCEPT !.curField = Append(@, QUOTE), !.i = @ + 2]
             ELSE [s EXCEPT !.inQuotes = ~@, !.i = @ + 1]
        ELSE IF Splits(s, ch) /\ ch = COMMA
        THEN [s EXCEPT !.curRow = Append(@, s.curField),
                       !.curField = <<>>, !.i = @ + 1]
        ELSE IF Splits(s, ch)
        THEN [s EXCEPT
                !.rows = Append(@, RowAsPushed(s.lib,
                                               Append(s.curRow, s.curField))),
                !.curRow = <<>>,
                !.curField = <<>>,
                !.i = IF ch = CR /\ hasNext /\ nextChar = LF
                      THEN @ + 2 ELSE @ + 1]
        ELSE [s EXCEPT !.curField = Append(@, ch), !.i = @ + 1]

RECURSIVE ScanAll(_)
ScanAll(s) == IF s.i > Len(s.text) THEN s ELSE ScanAll(ScanStep(s))

\* while (rows.length && last row is ['']) rows.pop()
RECURSIVE PopEmptyRows(_)
PopEmptyRows(rows) ==
    IF rows # <<>> /\ rows[Len(rows)] = << <<>> >>
    THEN PopEmptyRows(SubSeq(rows, 1, Len(rows) - 1))
    ELSE rows

MaxOf(S) == IF S = {} THEN 0 ELSE CHOOSE m \in S : \A n \in S : n <= m

\* learning.ts: rows shorter than the longest row are filled with ''
Normalize(rows) ==
    LET maxCols == MaxOf({Len(rows[k]) : k \in DOMAIN rows})
    IN  [k \in DOMAIN rows |->
            rows[k] \o [j \in 1..(maxCols - Len(rows[k])) |-> <<>>]]

\* what follows the loop
ScanFinish(s) ==
    LET lastRow == Append(s.curRow, s.curField)
    IN  IF s.lib = "learning"
        THEN Normalize(PopEmptyRows(
                 IF Len(lastRow) > 1 \/ lastRow[1] # <<>>
                 THEN Append(s.rows, RowAsPushed(s.lib, lastRow))
                 ELSE s.rows))
        ELSE PopEmptyRows(
                 IF s.curField # <<>> \/ Len(s.curRow) > 0
                 THEN Append(s.rows, lastRow)
                 ELSE s.rows)

\* lib/csv.ts parseCSV
parseCSV(text) == ScanFinish(ScanAll(ScanStart("csv", text)))

\* lib/learning.ts parseCSV
Learning_parseCSV(text) == ScanFinish(ScanAll(ScanStart("learning", text)))

ParserLibs == {"csv", "learning"}

\* ---- one call of a parser, character by character

MaxTextLen == 4
TextChars == {"a", COMMA, QUOTE, CR, LF, BOM}

ScanInputs ==
    /\ csvText \in SeqUpTo(TextChars, MaxTextLen)
    /\ csvScan = NoValue
    /\ csvRows = NoValue

CsvBegin ==
    /\ csvScan = NoValue
    /\ \E lib \in ParserLibs : csvScan' = ScanStart(lib, csvText)
    /\ UNCHANGED <<orgRows, orgCall, csvText, csvMatrix, csvRows,
                   quizCallRows, quizOut>>
    /\ UNCHANGED <<progressVars, pageVars, unlockVars, storeVars, fetchVars>>

CsvStep ==
    /\ csvScan # NoValue
    /\ csvRows = NoValue
    /\ csvScan.i <= Len(csvScan.text)
    /\ csvScan' = ScanStep(csvScan)
    /\ UNCHANGED <<orgRows, orgCall, csvText, csvMatrix, csvRows,
                   quizCallRows, quizOut>>
    /\ UNCHANGED <<progressVars, pageVars, unlockVars, storeVars, fetchVars>>

CsvFinish ==
    /\ csvScan # NoValue
    /\ csvRows = NoValue
    /\ csvScan.i > Len(csvScan.text)
    /\ csvRows' = [lib |-> csvScan.lib, rows |-> ScanFinish(csvScan)]
    /\ UNCHANGED <<orgRows, orgCall, csvText, csvMatrix, csvScan,
                   quizCallRows, quizOut>>
    /\ UNCHANGED <<progressVars, pageVars, unlockVars, storeVars, fetchVars>>

\* ---- a sheet written out and parsed back

\* a field in double quotes, every quote in it doubled
RECURSIVE DoubleQuotes(_)
DoubleQuotes(f) ==
    IF f = <<>> THEN <<>>
    ELSE (IF Head(f) = QUOTE THEN <<QUOTE, QUOTE>> ELSE <<Head(f)>>)
         \o DoubleQuotes(Tail(f))

SerializeField(f) == <<QUOTE>> \o DoubleQuotes(f) \o <<QUOTE>>

RECURSIVE SerializeRow(_)
SerializeRow(row) ==
    IF Len(row) = 1 THEN SerializeField(row[1])
    ELSE SerializeField(Head(row)) \o <<COMMA>> \o SerializeRow(Tail(row))

\* the rows in quoted form, one per line, lines ended by CRLF
RECURSIVE Serialize(_)
Serialize(rows) ==
    IF rows = <<>> THEN <<>>
    ELSE SerializeRow(Head(rows)) \o <<CR, LF>> \o Serialize(Tail(rows))

MaxSheetRows == 2
MaxRowFields == 2
FieldPool ==
    { <<"a">>, <<"a", COMMA, "a">>, <<"a", QUOTE>>, <<"a", LF, "a">>,
      <<"a", CR, LF>>, <<>> }

SheetRowPool == SeqUpTo(FieldPool, MaxRowFields) \ {<<>>}

RoundTripInputs ==
    /\ csvMatrix \in SeqUpTo(SheetRowPool, MaxSheetRows)
    /\ csvText = <<>>
    /\ csvScan = NoValue
    /\ csvRows = NoValue

\* the sheet is written out, then handed to one of the parsers
ParseSerialized ==
    /\ csvRows = NoValue
    /\ \E lib \in ParserLibs :
         /\ csvText' = Serialize(csvMatrix)
         /\ csvRows' = [lib |-> lib,
                        rows |-> IF lib = "learning"
                                 THEN Learning_parseCSV(csvText')
                                 ELSE parseCSV(csvText')]
    /\ UNCHANGED <<orgRows, orgCall, csvMatrix, csvScan, quizCallRows, quizOut>>
    /\ UNCHANGED <<progressVars, pageVars, unlockVars, storeVars, fetchVars>>

\* ======================================================================
\* organizeQuiz                                          (lib/learning.ts)
\* ======================================================================

\* ['A', 'B', 'C', 'D'].indexOf(correctLetter), 0 when it is not there
QuizCorrectIndex(correctOption) ==
    CASE correctOption = "A" -> 0
      [] correctOption = "B" -> 1
      [] correctOption = "C" -> 2
      [] correctOption = "D" -> 3
      [] OTHER -> 0

\* a scan that reports nothing
QuizDuplicatesNone(rows) == <<>>

\* the questionIds met again after a row already carried them, one entry
\* per repeated row; rows without a questionId are passed over
QuizDuplicates(rows) ==
    LET ids == [i \in DOMAIN rows |-> rows[i].questionId]
        repeated == {i \in DOMAIN rows :
                        /\ ids[i] # ""
                        /\ \E j \in 1..(i - 1) : ids[j] = ids[i]}
        F[i \in 0..Len(rows)] ==
            IF i = 0 THEN <<>>
            ELSE IF i \in repeated THEN Append(F[i - 1], ids[i])
                 ELSE F[i - 1]
    IN  F[Len(rows)]

\* organizeQuiz, random[i] standing for the digits Math.random gives row i
organizeQuiz(rows, random) ==
    LET duplicates == QuizDuplicates(rows)
        questions ==
            [i \in DOMAIN rows |->
                [id |-> IF rows[i].questionId # "" THEN rows[i].questionId
                        ELSE (IF rows[i].lessonId # "" THEN rows[i].lessonId
                              ELSE "lesson") \o "_" \o random[i],
                 question |-> rows[i].question,
                 correctIndex |-> QuizCorrectIndex(rows[i].correctOption),
                 lessonId |-> rows[i].lessonId]]
    IN  [questions |-> questions,
         warnings |-> IF Len(duplicates) > 0
                      THEN << [duplicateIds |-> Dedup(duplicates)] >>
                      ELSE <<>>]

MaxQuizRows == 3
QuizQuestionIds == {"q1", "q2", ""}
QuizCorrectOptions == {"B", ""}
RandomDigits == {"r1", "r2"}

\* row i of a quiz sheet
QuizRow(pick, i) ==
    [questionId |-> pick.questionId, lessonId |-> "L1",
     question |-> "question " \o ToString(i),
     correctOption |-> pick.correctOption]

QuizInputs ==
    /\ quizCallRows \in
         { [i \in DOMAIN picks |-> QuizRow(picks[i], i)] :
             picks \in SeqUpTo([questionId : QuizQuestionIds,
                                correctOption : QuizCorrectOptions],
                               MaxQuizRows) }
    /\ quizOut = NoValue

OrganizeQuizCall ==
    /\ quizOut = NoValue
    /\ \E random \in [DOMAIN quizCallRows -> RandomDigits] :
         quizOut' = organizeQuiz(quizCallRows, random)
    /\ UNCHANGED <<orgRows, orgCall, csvMatrix, csvText, csvScan, csvRows,
                   quizCallRows>>
    /\ UNCHANGED <<progressVars, pageVars, unlockVars, storeVars, fetchVars>>

\* ======================================================================
\* Completion derivations of the pages
\* ======================================================================

\* lib/csv.ts getCompletedTasks: the session store only
getCompletedTasks(courseId) == ssCompletedTasks[courseId]

\* CoursePage / CoursesIndex getCompletedTasks: both stores, merged
CoursePage_getCompletedTasks(courseId) ==
    Dedup(lsCompletedTasks[courseId] \o ssCompletedTasks[courseId])

\* LessonPage getCompletedTasks and the courses list: localStorage only
LessonPage_getCompletedTasks(courseId) == lsCompletedTasks[courseId]

CoursesPage_getCompletedTasks(courseId) == lsCompletedTasks[courseId]

\* chapter page getLessonCompletedTasks: both stores, merged, then
\* narrowed to the lesson's own task ids
getLessonCompletedTasks(courseId, lesson) ==
    LET localStorageTasks == lsCompletedTasks[courseId]
        sessionStorageTasks == getCompletedTasks(courseId)
        allCompletedTasks == Dedup(localStorageTasks \o sessionStorageTasks)
    IN  SelectSeq(allCompletedTasks,
                  LAMBDA taskId : \E i \in DOMAIN lesson.tasks :
                                      lesson.tasks[i].id = taskId)

\* chapter page chapterProgress: reads through lib/csv.ts getCompletedTasks
ChapterProgress_completedTaskIds(courseId) == getCompletedTasks(courseId)

chapterProgress(courseId, chapter) ==
    calculateProgress(FlatTasks(chapter.lessons),
                      ChapterProgress_completedTaskIds(courseId))

getCompletedLessonsList(courseId) == lsCompletedLessons[courseId]

isLessonLearningDone(lessonId) == lsLearningDone[lessonId]

\* lesson.hasLearning: a property organizeTasks never sets
LessonHasLearningProperty(lesson) ==
    "hasLearning" \in DOMAIN lesson /\ lesson["hasLearning"]

\* CoursePage isLessonFullyComplete
CoursePage_isLessonFullyComplete(courseId, lesson) ==
    LET completedTasks == CoursePage_getCompletedTasks(courseId)
        completedLessons == lsCompletedLessons[courseId]
        learningComplete == Includes(completedLessons, lesson.id)
        tasksComplete ==
            /\ Len(lesson.tasks) > 0
            /\ \A i \in DOMAIN lesson.tasks :
                   Includes(completedTasks, lesson.tasks[i].id)
    IN  IF Len(lesson.tasks) > 0 /\ LessonHasLearningProperty(lesson)
        THEN learningComplete \/ tasksComplete
        ELSE IF Len(lesson.tasks) > 0 THEN tasksComplete
        ELSE learningComplete

\* CoursesIndex isLessonFullyComplete
CoursesIndex_isLessonFullyComplete(lesson, courseId) ==
    LET completedTasks ==
            Dedup(lsCompletedTasks[courseId] \o ssCompletedTasks[courseId])
        completedLessons == lsCompletedLessons[courseId]
        learningComplete == Includes(completedLessons, lesson.id)
        tasksComplete ==
            /\ Len(lesson.tasks) > 0
            /\ \A i \in DOMAIN lesson.tasks :
                   Includes(completedTasks, lesson.tasks[i].id)
    IN  IF Len(lesson.tasks) > 0 /\ LessonHasLearningProperty(lesson)
        THEN learningComplete \/ tasksComplete
        ELSE IF Len(lesson.tasks) > 0 THEN tasksComplete
        ELSE learningComplete

\* one pass of the loop of computeLessonLevelCompletion (chapter header)
HeaderLessonIsComplete(courseId, lesson, hasLearningMap) ==
    LET completedLessonsSet == Range(getCompletedLessonsList(courseId))
        hasTasks == Len(lesson.tasks) > 0
        completedLessonsList == getCompletedLessonsList(courseId)
        learningDone == \/ isLessonLearningDone(lesson.id)
                        \/ Includes(completedLessonsList, lesson.id)
        hasLearning == lesson.id \in hasLearningMap \/ learningDone
        completedTasks == getLessonCompletedTasks(courseId, lesson)
        tasksComplete == /\ Len(completedTasks) = Len(lesson.tasks)
                         /\ Len(lesson.tasks) > 0
    IN  IF hasTasks /\ hasLearning
        THEN tasksComplete \/ lesson.id \in completedLessonsSet
        ELSE IF hasTasks THEN tasksComplete
        ELSE IF hasLearning THEN lesson.id \in completedLessonsSet
        ELSE FALSE

computeLessonLevelCompletion(courseId, chapter, hasLearningMap) ==
    LET completedLessonCount ==
            Cardinality({i \in DOMAIN chapter.lessons :
                HeaderLessonIsComplete(courseId, chapter.lessons[i],
                                       hasLearningMap)})
        totalLessonCount == Len(chapter.lessons)
    IN  [completedLessonCount |-> completedLessonCount,
         totalLessonCount |-> totalLessonCount,
         percentage |-> Percentage(completedLessonCount, totalLessonCount)]

\* the lesson card of the chapter page: isLessonFullyComplete
Card_isLessonFullyComplete(courseId, lesson, hasLearningMap) ==
    LET lessonCompletedTasks == getLessonCompletedTasks(courseId, lesson)
        lessonProgress == calculateProgress(lesson.tasks, lessonCompletedTasks)
        hasTasks == Len(lesson.tasks) > 0
        completedLessonsList == getCompletedLessonsList(courseId)
        learningDone == \/ isLessonLearningDone(lesson.id)
                        \/ Includes(completedLessonsList, lesson.id)
        hasLearning == lesson.id \in hasLearningMap \/ learningDone
        tasksComplete == /\ lessonProgress.completedTasks = Len(lesson.tasks)
                         /\ Len(lesson.tasks) > 0
    IN  IF hasTasks /\ hasLearning THEN tasksComplete \/ learningDone
        ELSE IF hasTasks THEN tasksComplete
        ELSE IF hasLearning
             THEN Includes(completedLessonsList, lesson.id) \/ learningDone
        ELSE FALSE

\* ======================================================================
\* The task and learning flows
\* ======================================================================

ChapterIds == {"ch1"}
TaskIds == {"t1", "t3", "t4"}
\* ids handed to lib/csv.ts markTaskCompleted
SessionMarkable == {"t1"}
PassingScore == 80

isQuizPassed(lessonId) == lsQuizPassed[lessonId] = "true"

\* nothing stored, nothing loaded
StoreEmpty ==
    /\ sheetRows = TaskSheetV1
    /\ csvCache = <<>>
    /\ loadedRows = <<>>
    /\ lessonHasLearning = {}
    /\ lsCompletedTasks = [c \in SheetCourseIds |-> <<>>]
    /\ ssCompletedTasks = [c \in SheetCourseIds |-> <<>>]
    /\ lsCompletedLessons = [c \in RouteCourseIds |-> <<>>]
    /\ lsLearningDone = [l \in LessonIds |-> FALSE]
    /\ lsWatchedTopics = [l \in LessonIds |-> <<>>]
    /\ lsQuizPassed = [l \in LessonIds |-> "unset"]
    /\ reconcileCall = NoValue
    /\ taskAction = NoValue
    /\ lastAction = NoValue
    /\ lsQuizScore = [l \in LessonIds |-> NoValue]

\* the sheet's owner adds a task to lesson L2
EditSheet ==
    /\ sheetRows = TaskSheetV1
    /\ sheetRows' = TaskSheetV2
    /\ UNCHANGED <<csvCache, loadedRows, lessonHasLearning, lsCompletedTasks,
                   ssCompletedTasks, lsCompletedLessons, lsLearningDone,
                   lsWatchedTopics, lsQuizPassed, reconcileCall>>
    /\ UNCHANGED <<progressVars, pageVars, sheetVars, unlockVars, fetchVars,
                   taskAction, lastAction, lsQuizScore>>

\* a page loads the course data (loadChapter and its like); the chapter
\* page then fills lessonHasLearning unless the topics could not be fetched
LoadPage ==
    \E o \in FetchTasksOutcomes(csvCache, sheetRows), topicsFetched \in BOOLEAN :
        /\ o.ok
        /\ csvCache' = o.cache
        /\ loadedRows' = o.rows
        /\ lessonHasLearning' =
               IF topicsFetched /\ Len(TopicSheet) > 0
               THEN {l \in LessonIds : Len(getTopicsForLesson(TopicSheet, l)) > 0}
               ELSE {}
        /\ UNCHANGED <<sheetRows, lsCompletedTasks, ssCompletedTasks,
                       lsCompletedLessons, lsLearningDone, lsWatchedTopics,
                       lsQuizPassed, reconcileCall>>
        /\ UNCHANGED <<progressVars, pageVars, sheetVars, unlockVars, fetchVars,
                       taskAction, lastAction, lsQuizScore>>

\* the list left as it was
markLessonCompletedNoWrite(lessons, courseId, lessonId) == lessons

\* markLessonCompleted
markLessonCompleted(lessons, courseId, lessonId) ==
    [lessons EXCEPT ![courseId] = PushIfAbsent(@, lessonId)]

\* TaskPage handleTaskCompleted from the click to the navigation: the task id
\* is saved, the lesson's tasks are fetched and the lesson is marked when
\* all of them are in the array
CompleteTask(courseId, chapterId, taskId, lessonId) ==
      /\ \E o1 \in FetchTasksOutcomes(csvCache, sheetRows) :
           LET completed == PushIfAbsent(lsCompletedTasks[courseId], taskId)
               foundLesson ==
                   IF o1.ok
                   THEN findLesson(OrganizedSheets[o1.rows], courseId, chapterId,
                                   lessonId)
                   ELSE NoValue
               allTasks == IF foundLesson = NoValue THEN <<>>
                           ELSE [i \in DOMAIN foundLesson.tasks |->
                                     foundLesson.tasks[i].id]
               allCompleted ==
                   /\ Len(allTasks) > 0
                   /\ \A i \in DOMAIN allTasks : Includes(completed, allTasks[i])
           IN  /\ lsCompletedTasks' =
                      [lsCompletedTasks EXCEPT ![courseId] = completed]
               /\ IF allCompleted
                  THEN /\ lsCompletedLessons' =
                              markLessonCompleted(lsCompletedLessons, courseId,
                                                  lessonId)
                       \* isChapterCompletedAsync fetches once more
                       /\ \E o2 \in FetchTasksOutcomes(o1.cache, sheetRows) :
                              csvCache' = o2.cache
                  ELSE /\ UNCHANGED lsCompletedLessons
                       /\ csvCache' = o1.cache
      /\ UNCHANGED <<sheetRows, loadedRows, lessonHasLearning, ssCompletedTasks,
                     lsLearningDone, lsWatchedTopics, lsQuizPassed, reconcileCall>>
      /\ lastAction' = [wrote |-> \/ lsCompletedTasks' # lsCompletedTasks
                                    \/ lsCompletedLessons' # lsCompletedLessons,
                      dispatched |-> FALSE]
      /\ UNCHANGED <<progressVars, sheetVars, unlockVars, fetchVars,
                     taskAction, lsQuizScore>>

\* TaskPage handleTaskCompleted.  The page shows the button unless
\* checkLearningRequirements has found learning content without a passed quiz.
HandleTaskCompleted ==
    \E courseId \in SheetCourseIds, chapterId \in ChapterIds, taskId \in TaskIds :
      LET task == findTask(OrganizedSheets[loadedRows], courseId, chapterId, taskId)
      IN
      /\ task # NoValue
      /\ \E requirementsChecked \in BOOLEAN :
           LET hasLearningContent ==
                   /\ requirementsChecked
                   /\ Len(getTopicsForLesson(TopicSheet, task.lessonId)) > 0
               quizPassed == requirementsChecked /\ isQuizPassed(task.lessonId)
           IN  ~(hasLearningContent /\ ~quizPassed)
      /\ CompleteTask(courseId, chapterId, taskId, task.lessonId)
      /\ UNCHANGED pageVars

\* lib/csv.ts markTaskCompleted: the session store
MarkTaskCompleted ==
    \E courseId \in SheetCourseIds, taskId \in SessionMarkable :
        /\ ~Includes(ssCompletedTasks[courseId], taskId)
        /\ ssCompletedTasks' =
               [ssCompletedTasks EXCEPT ![courseId] = Append(@, taskId)]
        /\ UNCHANGED <<sheetRows, csvCache, loadedRows, lessonHasLearning,
                       lsCompletedTasks, lsCompletedLessons, lsLearningDone,
                       lsWatchedTopics, lsQuizPassed, reconcileCall>>
        /\ UNCHANGED <<progressVars, pageVars, sheetVars, unlockVars, fetchVars,
                       taskAction, lastAction, lsQuizScore>>

\* lib/learning.ts markTopicWatched
markTopicWatched(watched, lessonId, topicId) ==
    [watched EXCEPT ![lessonId] = PushIfAbsent(@, topicId)]

\* LearningPage loadLearningData opened on a topic of the lesson
LoadLearningData ==
    \E lessonId \in LessonIds :
      LET lessonTopics == getTopicsForLesson(TopicSheet, lessonId)
      IN  \E i \in DOMAIN lessonTopics :
            /\ lsWatchedTopics' =
                   markTopicWatched(lsWatchedTopics, lessonId,
                                    lessonTopics[i].topicId)
            /\ lsWatchedTopics' # lsWatchedTopics
            /\ UNCHANGED <<sheetRows, csvCache, loadedRows, lessonHasLearning,
                           lsCompletedTasks, ssCompletedTasks,
                           lsCompletedLessons, lsLearningDone, lsQuizPassed,
                           reconcileCall>>
            /\ lastAction' = [wrote |-> TRUE, dispatched |-> TRUE]
            /\ UNCHANGED <<progressVars, pageVars, sheetVars, unlockVars, fetchVars,
                           taskAction, lsQuizScore>>

\* LearningPage handleTopicSelect
HandleTopicSelect ==
    \E courseId \in RouteCourseIds, lessonId \in LessonIds :
      LET topics == getTopicsForLesson(TopicSheet, lessonId)
      IN  \E i \in DOMAIN topics :
            LET watched == markTopicWatched(lsWatchedTopics, lessonId,
                                            topics[i].topicId)
                updatedWatchedTopics == watched[lessonId]
                allWatched == /\ Len(updatedWatchedTopics) = Len(topics)
                              /\ Len(topics) > 0
            IN  /\ lsWatchedTopics' = watched
                /\ lsLearningDone' =
                       IF allWatched
                       THEN [lsLearningDone EXCEPT ![lessonId] = TRUE]
                       ELSE lsLearningDone
                /\ lsCompletedLessons' =
                       IF allWatched
                       THEN markLessonCompleted(lsCompletedLessons, courseId,
                                                lessonId)
                       ELSE lsCompletedLessons
                /\ UNCHANGED <<sheetRows, csvCache, loadedRows,
                               lessonHasLearning, lsCompletedTasks,
                               ssCompletedTasks, lsQuizPassed, reconcileCall>>
                /\ lastAction' = [wrote |-> TRUE, dispatched |-> TRUE]
                /\ UNCHANGED <<progressVars, pageVars, sheetVars, unlockVars, fetchVars,
                               taskAction, lsQuizScore>>

\* LearningPage handleNextQuestion on the last question of the quiz, which
\* is offered once every topic of the lesson is watched
RECURSIVE Gcd(_, _)
Gcd(a, b) == IF b = 0 THEN a ELSE Gcd(b, a % b)

\* (correct / quizQuestions.length) * 100, kept as the exact quotient
\* num / den in lowest terms, so that equal numbers are equal values: the
\* code computes it in floating point and never rounds it
ScorePercentage(correct, questions) ==
    LET d == Gcd(correct * 100, questions)
    IN  [num |-> (correct * 100) \div d, den |-> questions \div d]

\* scorePercentage >= 80
ScorePasses(score) == score.num >= PassingScore * score.den

\* a setQuizPassed that records a pass and never takes it back
setQuizPassedOnlyTrue(flags, lessonId, passed) ==
    IF passed THEN [flags EXCEPT ![lessonId] = "true"] ELSE flags

\* setQuizPassed(lessonId, passed): passed.toString() is written in either case
setQuizPassed(flags, lessonId, passed) ==
    [flags EXCEPT ![lessonId] = IF passed THEN "true" ELSE "false"]

\* setQuizScore(lessonId, score): score.toString() is written, no rounding
setQuizScore(scores, lessonId, score) == [scores EXCEPT ![lessonId] = score]

\* handleNextQuestion on the last question, the page having loaded the quiz
\* from quizSheet
SubmitQuiz(quizSheet) ==
    \E courseId \in RouteCourseIds, lessonId \in LessonIds :
      LET topics == getTopicsForLesson(TopicSheet, lessonId)
          quizQuestions == getQuizForLesson(quizSheet, lessonId)
          isQuizUnlocked == /\ Len(topics) > 0
                            /\ Len(lsWatchedTopics[lessonId]) = Len(topics)
      IN  /\ isQuizUnlocked
          /\ Len(quizQuestions) > 0
          /\ \E correct \in 0..Len(quizQuestions) :
               LET scorePercentage ==
                       ScorePercentage(correct, Len(quizQuestions))
                   passed == ScorePasses(scorePercentage)
               IN  /\ lsQuizScore' =
                          setQuizScore(lsQuizScore, lessonId, scorePercentage)
                   /\ lsQuizPassed' =
                          setQuizPassed(lsQuizPassed, lessonId, passed)
          /\ lsLearningDone' = [lsLearningDone EXCEPT ![lessonId] = TRUE]
          /\ lsCompletedLessons' =
                 markLessonCompleted(lsCompletedLessons, courseId, lessonId)
          /\ UNCHANGED <<sheetRows, csvCache, loadedRows, lessonHasLearning,
                         lsCompletedTasks, ssCompletedTasks, lsWatchedTopics,
                         reconcileCall>>
          /\ lastAction' = [wrote |-> TRUE, dispatched |-> TRUE]
          /\ UNCHANGED <<progressVars, pageVars, sheetVars, unlockVars,
                         fetchVars, taskAction>>

\* the quiz of the five-question sheet submitted
HandleNextQuestion == SubmitQuiz(QuizSheet)

\* the quiz submitted, whichever version of the sheet the page loaded
HandleNextQuestionAnySheet == \E quizSheet \in QuizSheets : SubmitQuiz(quizSheet)

\* ======================================================================
\* The task page                              (TaskPage, TaskResourceButton)
\* ======================================================================

\* the resources of the tasks of the sheet: how many pdfs and forms a task
\* lists and whether it has an answer key
TaskResources ==
    [t \in TaskIds |->
        CASE t = "t1" -> [pdfs |-> 1, forms |-> 1, answerKey |-> TRUE]
          [] t = "t3" -> [pdfs |-> 0, forms |-> 0, answerKey |-> TRUE]
          [] OTHER    -> [pdfs |-> 2, forms |-> 0, answerKey |-> FALSE]]

\* requiredResourceIds: pdf_<i> for each pdf and form_<i> for each form,
\* empty while no task is loaded
requiredResourceIds(task) ==
    IF task = NoValue THEN {}
    ELSE {"pdf_" \o ToString(i) : i \in 0..(task.resources.pdfs - 1)}
         \cup {"form_" \o ToString(i) : i \in 0..(task.resources.forms - 1)}

\* the buttons the task view renders: the required ones and the answer key
ResourceButtons(task) ==
    requiredResourceIds(task)
    \cup (IF task.resources.answerKey THEN {"answer_key"} ELSE {})

\* a completion check that is content with one visited resource
CompletionCheckAnyVisited(required, visited) == visited # {}

\* the completion check effect: the value given to showCompleted
CompletionCheck(required, visited) ==
    IF required = {} THEN TRUE
    ELSE \A id \in required : id \in visited

\* the effect loading the visited flags of the required resources from
\* sessionStorage
VisitedFlags(taskId, required) ==
    IF required = {} THEN {}
    ELSE {id \in required : <<taskId, id>> \in ssVisited}

\* what TaskPage renders
PageBlocker(p) ==
    ~p.loading /\ ~p.error /\ p.task # NoValue
    /\ p.hasLearningContent /\ ~p.quizPassed
TaskViewShown(p) ==
    ~p.loading /\ ~p.error /\ p.task # NoValue
    /\ ~(p.hasLearningContent /\ ~p.quizPassed)

\* the route /courses/:courseId/chapters/:chapterId/tasks/:taskId mounts
\* TaskPage: the initial state, after the effects of the first render
OpenTaskPage ==
    /\ taskPage = NoValue
    /\ \E courseId \in SheetCourseIds, chapterId \in ChapterIds,
          taskId \in TaskIds :
         taskPage' = [courseId |-> courseId, chapterId |-> chapterId,
                      taskId |-> taskId, task |-> NoValue,
                      loading |-> TRUE, error |-> FALSE,
                      requirements |-> "idle",
                      hasLearningContent |-> FALSE, quizPassed |-> FALSE,
                      visitedResources |-> VisitedFlags(taskId, {}),
                      showCompleted |-> CompletionCheck({}, {})]
    /\ UNCHANGED <<ssVisited, route, nowDate>>
    /\ UNCHANGED <<progressVars, unlockVars, storeVars, fetchVars, sheetVars>>

\* loadTask settles; with a task set, the effects start
\* checkLearningRequirements, load the visited flags and run the
\* completion check
LoadTask ==
    /\ taskPage # NoValue
    /\ taskPage.loading
    /\ \E o \in FetchTasksOutcomes(csvCache, sheetRows) :
         LET p == taskPage
             found == IF o.ok
                      THEN findTask(OrganizedSheets[o.rows], p.courseId,
                                    p.chapterId, p.taskId)
                      ELSE NoValue
             normalized == [id |-> found.id, lessonId |-> found.lessonId,
                            resources |-> TaskResources[found.id]]
             required == requiredResourceIds(normalized)
             visited == VisitedFlags(p.taskId, required)
         IN  /\ csvCache' = o.cache
             /\ taskPage' =
                  IF found = NoValue
                  THEN [p EXCEPT !.loading = FALSE, !.error = TRUE]
                  ELSE [p EXCEPT !.loading = FALSE, !.task = normalized,
                                 !.requirements = "pending",
                                 !.visitedResources = visited,
                                 !.showCompleted =
                                     CompletionCheck(required, visited)]
    /\ UNCHANGED <<ssVisited, route, nowDate>>
    /\ UNCHANGED <<sheetRows, loadedRows, lessonHasLearning, lsCompletedTasks,
                   ssCompletedTasks, lsCompletedLessons, lsLearningDone,
                   lsWatchedTopics, lsQuizPassed, reconcileCall, taskAction,
                   lastAction, lsQuizScore>>
    /\ UNCHANGED <<progressVars, unlockVars, fetchVars, sheetVars>>

\* checkLearningRequirements settles: fetchTopics gave the sheet, or failed
\* and was replaced by []
CheckLearningRequirements ==
    /\ taskPage # NoValue
    /\ taskPage.requirements = "pending"
    /\ \E topicsFetched \in BOOLEAN :
         LET p == taskPage
             topicRows == IF topicsFetched THEN TopicSheet ELSE <<>>
             lessonTopics == getTopicsForLesson(topicRows, p.task.lessonId)
         IN  taskPage' =
               IF Len(topicRows) > 0 /\ Len(lessonTopics) > 0
               THEN [p EXCEPT !.requirements = "done",
                              !.hasLearningContent = TRUE,
                              !.quizPassed = isQuizPassed(p.task.lessonId)]
               ELSE [p EXCEPT !.requirements = "done"]
    /\ UNCHANGED <<ssVisited, route, nowDate>>
    /\ UNCHANGED <<progressVars, unlockVars, storeVars, fetchVars, sheetVars>>

\* TaskResourceButton handleClick and TaskPage handleResourceVisited, then
\* the completion check effect
HandleResourceVisited ==
    /\ taskPage # NoValue
    /\ TaskViewShown(taskPage)
    /\ \E resourceId \in ResourceButtons(taskPage.task) :
         LET p == taskPage
             visited == p.visitedResources \cup {resourceId}
         IN  /\ ssVisited' = ssVisited \cup {<<p.taskId, resourceId>>}
             /\ taskPage' =
                  [p EXCEPT !.visitedResources = visited,
                            !.showCompleted =
                                CompletionCheck(requiredResourceIds(p.task),
                                                visited)]
    /\ UNCHANGED <<route, nowDate>>
    /\ UNCHANGED <<progressVars, unlockVars, storeVars, fetchVars, sheetVars>>

\* the Task Completed button, which takes clicks while showCompleted holds;
\* handleTaskCompleted ends by leaving the page
ClickTaskCompleted ==
    /\ taskPage # NoValue
    /\ TaskViewShown(taskPage)
    /\ taskPage.showCompleted
    /\ CompleteTask(taskPage.courseId, taskPage.chapterId, taskPage.taskId,
                    taskPage.task.lessonId)
    /\ taskPage' = NoValue
    /\ UNCHANGED <<ssVisited, route, nowDate>>

\* the user leaves the task page
CloseTaskPage ==
    /\ taskPage # NoValue
    /\ taskPage' = NoValue
    /\ UNCHANGED <<ssVisited, route, nowDate>>
    /\ UNCHANGED <<progressVars, unlockVars, storeVars, fetchVars, sheetVars>>

\* ======================================================================
\* Navigation to the pages of a lesson          (App routes, ChapterPage,
\*                                               LessonPage, LearningPage)
\* ======================================================================

MaxNavDays == 3

\* the lessons of the chapter the user browses, all of them in the unlock
\* schedule; each has the topic p1
NavLessonIds == {LesId(1, 1), LesId(1, 2), LesId(1, 3)}
NavTopicId == "p1"
\* the route has no :lessonId, or no :topicId
NoLessonId == PlainId("")
NoTopicId == ""
LessonRoutes == {"lesson", "learning", "task"}

\* the stores of a browser that has not yet opened any lesson of the chapter
NavStoreEmpty ==
    /\ sheetRows = TaskSheetV1
    /\ csvCache = <<>>
    /\ loadedRows = <<>>
    /\ lessonHasLearning = {}
    /\ lsCompletedTasks = [c \in SheetCourseIds |-> <<>>]
    /\ ssCompletedTasks = [c \in SheetCourseIds |-> <<>>]
    /\ lsCompletedLessons = [c \in RouteCourseIds |-> <<>>]
    /\ lsLearningDone = [l \in NavLessonIds |-> FALSE]
    /\ lsWatchedTopics = [l \in NavLessonIds |-> <<>>]
    /\ lsQuizPassed = [l \in NavLessonIds |-> "unset"]
    /\ lsQuizScore = [l \in NavLessonIds |-> NoValue]
    /\ reconcileCall = NoValue
    /\ taskAction = NoValue
    /\ lastAction = NoValue

\* isLessonUnlocked(lesson.id, new Date())
isLessonUnlocked(lessonId) ==
    isLessonUnlockedById(unlockSchedule, tzOffset, lessonId, nowDate)

\* a day passes
ClockTick ==
    /\ nowDate < courseStartDate + MaxNavDays * MinutesPerDay
    /\ nowDate' = nowDate + MinutesPerDay
    /\ UNCHANGED <<taskPage, ssVisited, route>>
    /\ UNCHANGED <<progressVars, unlockVars, storeVars, fetchVars, sheetVars>>

\* the chapter page is opened
OpenChapterPage ==
    /\ route' = [page |-> "chapter", lessonId |-> NoLessonId,
                 topicId |-> NoTopicId, loaded |-> TRUE]
    /\ UNCHANGED <<taskPage, ssVisited, nowDate>>
    /\ UNCHANGED <<progressVars, unlockVars, storeVars, fetchVars, sheetVars>>

\* the chapter page renders the Link to a lesson when isLessonUnlocked holds
\* and a disabled Locked button otherwise
ClickLessonLink ==
    /\ route # NoValue
    /\ route.page = "chapter"
    /\ \E lessonId \in NavLessonIds :
         /\ isLessonUnlocked(lessonId)
         /\ route' = [page |-> "lesson", lessonId |-> lessonId,
                      topicId |-> NoTopicId, loaded |-> FALSE]
    /\ UNCHANGED <<taskPage, ssVisited, nowDate>>
    /\ UNCHANGED <<progressVars, unlockVars, storeVars, fetchVars, sheetVars>>

\* the router renders the page of whatever URL the browser is given (typed,
\* bookmarked or followed from outside); ProtectedRoute asks for a signed-in
\* user and nothing else
EnterUrl ==
    /\ \E page \in LessonRoutes, lessonId \in NavLessonIds,
          topicId \in {NoTopicId, NavTopicId} :
         route' = [page |-> page, lessonId |-> lessonId,
                   topicId |-> IF page = "learning" THEN topicId
                               ELSE NoTopicId,
                   loaded |-> FALSE]
    /\ UNCHANGED <<taskPage, ssVisited, nowDate>>
    /\ UNCHANGED <<progressVars, unlockVars, storeVars, fetchVars, sheetVars>>

\* LessonPage loadLesson: the lesson has topics, so the page redirects to
\* the learning page unless the tasks tab was asked for
LoadLesson ==
    /\ route # NoValue
    /\ route.page = "lesson" /\ ~route.loaded
    /\ \E forceTasks \in BOOLEAN :
         route' = IF forceTasks THEN [route EXCEPT !.loaded = TRUE]
                  ELSE [route EXCEPT !.page = "learning"]
    /\ UNCHANGED <<taskPage, ssVisited, nowDate>>
    /\ UNCHANGED <<progressVars, unlockVars, storeVars, fetchVars, sheetVars>>

\* the lesson page lists the lesson's tasks, each a Link to its task page
ClickTaskLink ==
    /\ route # NoValue
    /\ route.page = "lesson" /\ route.loaded
    /\ route' = [route EXCEPT !.page = "task", !.loaded = FALSE]
    /\ UNCHANGED <<taskPage, ssVisited, nowDate>>
    /\ UNCHANGED <<progressVars, unlockVars, storeVars, fetchVars, sheetVars>>

\* TaskPage loadTask on the route of a task of the lesson
OpenTaskRoute ==
    /\ route # NoValue
    /\ route.page = "task" /\ ~route.loaded
    /\ route' = [route EXCEPT !.loaded = TRUE]
    /\ UNCHANGED <<taskPage, ssVisited, nowDate>>
    /\ UNCHANGED <<progressVars, unlockVars, storeVars, fetchVars, sheetVars>>

\* LearningPage loadLearningData: the topic of the URL, if any, is marked
\* watched
OpenLearningPage ==
    /\ route # NoValue
    /\ route.page = "learning" /\ ~route.loaded
    /\ route' = [route EXCEPT !.loaded = TRUE]
    /\ IF route.topicId # NoTopicId
       THEN /\ lsWatchedTopics' =
                   markTopicWatched(lsWatchedTopics, route.lessonId,
                                    route.topicId)
            /\ lastAction' = [wrote |-> lsWatchedTopics' # lsWatchedTopics,
                              dispatched |-> TRUE]
       ELSE UNCHANGED <<lsWatchedTopics, lastAction>>
    /\ UNCHANGED <<sheetRows, csvCache, loadedRows, lessonHasLearning,
                   lsCompletedTasks, ssCompletedTasks, lsCompletedLessons,
                   lsLearningDone, lsQuizPassed, reconcileCall, taskAction,
                   lsQuizScore>>
    /\ UNCHANGED <<taskPage, ssVisited, nowDate>>
    /\ UNCHANGED <<progressVars, unlockVars, fetchVars, sheetVars>>

\* ======================================================================
\* handleTaskCompleted, one step per stretch between its awaits
\* ======================================================================

\* from the click to the first await: the task id is pushed to the durable
\* list, then fetchTasks is called
TaskActionBegin ==
    \E courseId \in SheetCourseIds, chapterId \in ChapterIds, taskId \in TaskIds :
      LET task == findTask(OrganizedSheets[loadedRows], courseId, chapterId, taskId)
          completed == PushIfAbsent(lsCompletedTasks[courseId], taskId)
      IN
      /\ IF taskAction = NoValue THEN TRUE ELSE taskAction.pc = "done"
      /\ task # NoValue
      /\ \E requirementsChecked \in BOOLEAN :
           LET hasLearningContent ==
                   /\ requirementsChecked
                   /\ Len(getTopicsForLesson(TopicSheet, task.lessonId)) > 0
               quizPassed == requirementsChecked /\ isQuizPassed(task.lessonId)
           IN  ~(hasLearningContent /\ ~quizPassed)
      /\ lsCompletedTasks' = [lsCompletedTasks EXCEPT ![courseId] = completed]
      /\ taskAction' = [pc |-> "awaitTasks", courseId |-> courseId,
                        chapterId |-> chapterId, taskId |-> taskId,
                        lessonId |-> task.lessonId, completed |-> completed,
                        taskCheck |-> NoValue, chapterCheck |-> NoValue]
      /\ lastAction' = [wrote |-> lsCompletedTasks' # lsCompletedTasks,
                        dispatched |-> FALSE]
      /\ UNCHANGED <<sheetRows, csvCache, loadedRows, lessonHasLearning,
                     ssCompletedTasks, lsCompletedLessons, lsLearningDone,
                     lsWatchedTopics, lsQuizPassed, reconcileCall>>
      /\ UNCHANGED <<progressVars, pageVars, sheetVars, unlockVars, fetchVars,
                     lsQuizScore>>

\* fetchTasks settles: the all-tasks-done check on the array built before
\* the await, then markLessonCompleted and the call of isChapterCompletedAsync
TaskActionTasksFetched ==
    /\ taskAction # NoValue
    /\ taskAction.pc = "awaitTasks"
    /\ \E o1 \in FetchTasksOutcomes(csvCache, sheetRows) :
         LET a == taskAction
             foundLesson ==
                 IF o1.ok
                 THEN findLesson(OrganizedSheets[o1.rows], a.courseId,
                                 a.chapterId, a.lessonId)
                 ELSE NoValue
             allTasks == IF foundLesson = NoValue THEN <<>>
                         ELSE [i \in DOMAIN foundLesson.tasks |->
                                   foundLesson.tasks[i].id]
             allCompleted ==
                 /\ Len(allTasks) > 0
                 /\ \A i \in DOMAIN allTasks : Includes(a.completed, allTasks[i])
             check == [inArray |-> Includes(a.completed, a.taskId),
                       inStore |-> Includes(lsCompletedTasks[a.courseId],
                                            a.taskId),
                       allCompleted |-> allCompleted]
         IN  /\ csvCache' = o1.cache
             /\ IF allCompleted
                THEN /\ lsCompletedLessons' =
                            markLessonCompleted(lsCompletedLessons, a.courseId,
                                                a.lessonId)
                     /\ taskAction' = [a EXCEPT !.pc = "awaitChapter",
                                                !.taskCheck = check]
                     /\ lastAction' = [wrote |-> TRUE, dispatched |-> FALSE]
                ELSE /\ UNCHANGED <<lsCompletedLessons, lastAction>>
                     /\ taskAction' = [a EXCEPT !.pc = "done",
                                                !.taskCheck = check]
    /\ UNCHANGED <<sheetRows, loadedRows, lessonHasLearning, lsCompletedTasks,
                   ssCompletedTasks, lsLearningDone, lsWatchedTopics,
                   lsQuizPassed, reconcileCall>>
    /\ UNCHANGED <<progressVars, pageVars, sheetVars, unlockVars, fetchVars,
                   lsQuizScore>>

\* isChapterCompletedAsync: its fetchTasks settles, the completed-lesson
\* list is read from localStorage and compared with the chapter's lessons
TaskActionChapterFetched ==
    /\ taskAction # NoValue
    /\ taskAction.pc = "awaitChapter"
    /\ \E o2 \in FetchTasksOutcomes(csvCache, sheetRows) :
         LET a == taskAction
             foundChapter ==
                 IF o2.ok
                 THEN findChapter(OrganizedSheets[o2.rows], a.courseId,
                                  a.chapterId)
                 ELSE NoValue
             lessonIds == IF foundChapter = NoValue THEN <<>>
                          ELSE [i \in DOMAIN foundChapter.lessons |->
                                    foundChapter.lessons[i].id]
             completedLessons == lsCompletedLessons[a.courseId]
             check == [sawLesson |-> Includes(completedLessons, a.lessonId),
                       chapterDone |->
                           /\ Len(lessonIds) > 0
                           /\ \A i \in DOMAIN lessonIds :
                                  Includes(completedLessons, lessonIds[i])]
         IN  /\ csvCache' = o2.cache
             /\ taskAction' =
                    [a EXCEPT !.pc = "done",
                              !.chapterCheck = IF o2.ok /\ Len(lessonIds) > 0
                                               THEN check ELSE NoValue]
    /\ UNCHANGED <<sheetRows, loadedRows, lessonHasLearning, lsCompletedTasks,
                   ssCompletedTasks, lsCompletedLessons, lsLearningDone,
                   lsWatchedTopics, lsQuizPassed, reconcileCall, lastAction>>
    /\ UNCHANGED <<progressVars, pageVars, sheetVars, unlockVars, fetchVars,
                   lsQuizScore>>

\* ======================================================================
\* The derivations applied to one lesson
\* ======================================================================

\* Lesson values of the Lesson interface, tasks: Task[] possibly empty
ReconcileLessons ==
    {[id |-> l, chapterId |-> "ch1", courseId |-> "cA",
      tasks |-> [i \in DOMAIN ids |->
                    TaskOfRow(TaskRow("cA", "ch1", l, ids[i], 10))]] :
        l \in LessonIds, ids \in {<<>>, <<"t1">>, <<"t1", "t3">>}}

\* sequences over S without repetition
Arrays(S) ==
    {s \in SeqUpTo(S, Cardinality(S)) :
        \A i, j \in DOMAIN s : i # j => s[i] # s[j]}

\* persisted state as the flows above can leave it
ReconcileInputs ==
    /\ sheetRows = TaskSheetV1
    /\ csvCache = <<>>
    /\ loadedRows = <<>>
    /\ lessonHasLearning \in
           {{}, {l \in LessonIds : Len(getTopicsForLesson(TopicSheet, l)) > 0}}
    /\ lsCompletedTasks \in [SheetCourseIds -> Arrays({"t1", "t3"})]
    /\ ssCompletedTasks \in [SheetCourseIds -> Arrays(SessionMarkable)]
    /\ lsCompletedLessons \in
           {f \in [RouteCourseIds -> Arrays(LessonIds)] : f["cX"] = <<>>}
    /\ lsLearningDone \in [LessonIds -> BOOLEAN]
    /\ lsWatchedTopics = [l \in LessonIds |-> <<>>]
    /\ lsQuizPassed = [l \in LessonIds |-> "unset"]
    /\ reconcileCall = NoValue
    /\ taskAction = NoValue
    /\ lastAction = NoValue
    /\ lsQuizScore = [l \in LessonIds |-> NoValue]

\* the four pages derive the completeness of the same lesson
ReconcileCall ==
    \E courseId \in SheetCourseIds, lesson \in ReconcileLessons :
        /\ reconcileCall = NoValue
        /\ reconcileCall' =
               [courseId |-> courseId,
                lesson |-> lesson,
                header |-> HeaderLessonIsComplete(courseId, lesson,
                                                  lessonHasLearning),
                card |-> Card_isLessonFullyComplete(courseId, lesson,
                                                    lessonHasLearning),
                coursePage |-> CoursePage_isLessonFullyComplete(courseId, lesson),
                coursesIndex |->
                    CoursesIndex_isLessonFullyComplete(lesson, courseId)]
        /\ UNCHANGED <<sheetRows, csvCache, loadedRows, lessonHasLearning,
                       lsCompletedTasks, ssCompletedTasks, lsCompletedLessons,
                       lsLearningDone, lsWatchedTopics, lsQuizPassed>>
        /\ UNCHANGED <<progressVars, pageVars, sheetVars, unlockVars, fetchVars,
                       taskAction, lastAction, lsQuizScore>>

\* ======================================================================
\* Cached fetch            (fetchTasks, fetchTopics, fetchQuiz)
\* ======================================================================

Sources == {"tasks", "topics", "quiz"}

\* 30 * 60 * 1000
CACHE_DURATION == 1800000

MaxNow == 1800000
MaxCalls == 2
MaxVersion == 2

\* the clock moves by a quarter of an hour, or a millisecond less
TickSteps == {899999, 900000}

\* parseTaskRows(parseCSV(csvText)) of what the server serves
RowsOf(source, version) == [source |-> source, version |-> version]

CacheFreshInclusive(nowMs, timestamp) == nowMs - timestamp <= CACHE_DURATION

\* Date.now() - timestamp < CACHE_DURATION
CacheFresh(nowMs, timestamp) == nowMs - timestamp < CACHE_DURATION

FetchIdle ==
    /\ now = 0
    /\ published = 1
    /\ cache = [s \in Sources |-> NoValue]
    /\ calls = <<>>

\* the part of fetchX up to its first await: the cache check, then the
\* request
FetchCall ==
    \E source \in Sources :
        LET cached == cache[source]
            hit == cached # NoValue /\ CacheFresh(now, cached.timestamp)
        IN  /\ Len(calls) < MaxCalls
            /\ calls' = Append(calls,
                   [source |-> source, at |-> now, seen |-> cached,
                    pc |-> IF hit THEN "returned" ELSE "awaiting",
                    requests |-> IF hit THEN 0 ELSE 1,
                    result |-> IF hit THEN cached.data ELSE NoValue,
                    stored |-> NoValue,
                    \* the calls of the same source still awaiting a response
                    overlaps |-> {k \in DOMAIN calls :
                                     /\ calls[k].source = source
                                     /\ calls[k].pc = "awaiting"}])
            /\ UNCHANGED <<now, published, cache>>
            /\ UNCHANGED <<progressVars, pageVars, sheetVars, unlockVars, storeVars>>

\* the response arrives: parse, store under the source's key, return
FetchRespondOk ==
    \E i \in DOMAIN calls :
        LET c == calls[i]
            rows == RowsOf(c.source, published)
            entry == [data |-> rows, timestamp |-> now]
        IN  /\ c.pc = "awaiting"
            /\ cache' = [cache EXCEPT ![c.source] = entry]
            /\ calls' = [calls EXCEPT ![i] =
                   [c EXCEPT !.pc = "returned", !.result = rows,
                             !.stored = entry]]
            /\ UNCHANGED <<now, published>>
            /\ UNCHANGED <<progressVars, pageVars, sheetVars, unlockVars, storeVars>>

\* a failure that also drops the source's entry
FetchRespondFailDropsEntry ==
    \E i \in DOMAIN calls :
        /\ calls[i].pc = "awaiting"
        /\ calls' = [calls EXCEPT ![i] =
               [calls[i] EXCEPT !.pc = "failed"]]
        /\ cache' = [cache EXCEPT ![calls[i].source] = NoValue]
        /\ UNCHANGED <<now, published>>
        /\ UNCHANGED <<progressVars, pageVars, sheetVars, unlockVars, storeVars>>

\* the request fails or the response is not ok: the error is rethrown
FetchRespondFail ==
    \E i \in DOMAIN calls :
        /\ calls[i].pc = "awaiting"
        /\ calls' = [calls EXCEPT ![i] =
               [calls[i] EXCEPT !.pc = "failed"]]
        /\ UNCHANGED <<now, published, cache>>
        /\ UNCHANGED <<progressVars, pageVars, sheetVars, unlockVars, storeVars>>

Tick ==
    \E d \in TickSteps :
        /\ now + d <= MaxNow
        /\ now' = now + d
        /\ UNCHANGED <<published, cache, calls>>
        /\ UNCHANGED <<progressVars, pageVars, sheetVars, unlockVars, storeVars>>

\* the sheets are edited and published again
Publish ==
    /\ published < MaxVersion
    /\ published' = published + 1
    /\ UNCHANGED <<now, cache, calls>>
    /\ UNCHANGED <<progressVars, pageVars, sheetVars, unlockVars, storeVars>>

\* ======================================================================
\* Specifications
\* ======================================================================

InitProgress == UnlockIdle /\ StoreEmpty /\ FetchIdle /\ ProgressInputs /\ SheetIdle /\ PageIdle
NextProgress == CalculateProgressCall
SpecProgress == InitProgress /\ [][NextProgress]_vars

InitUnlock == UnlockConstruct /\ ProgressIdle /\ StoreEmpty /\ FetchIdle /\ SheetIdle /\ PageIdle

\* the schedule and its lookups
NextSchedule == GetLessonUnlockDateCall
SpecSchedule == InitUnlock /\ [][NextSchedule]_vars

\* the lesson queries
NextUnlock ==
    \/ IsLessonUnlockedCall
    \/ GetLessonUnlockDateCall
    \/ GetDaysUntilUnlockCall
SpecUnlock == InitUnlock /\ [][NextUnlock]_vars

\* the chapter query
NextChapter == IsChapterUnlockedCall
SpecChapter == InitUnlock /\ [][NextChapter]_vars


\* the task and learning flows over the stores
InitCompletion == UnlockIdle /\ ProgressIdle /\ FetchIdle /\ StoreEmpty /\ SheetIdle /\ PageIdle
NextCompletion ==
    \/ EditSheet
    \/ LoadPage
    \/ HandleTaskCompleted
    \/ MarkTaskCompleted
    \/ LoadLearningData
    \/ HandleTopicSelect
    \/ HandleNextQuestion
SpecCompletion == InitCompletion /\ [][NextCompletion]_vars

\* the task page of one tab, with the learning page of another
InitTaskPage == InitCompletion
NextTaskPage ==
    \/ OpenTaskPage
    \/ LoadTask
    \/ CheckLearningRequirements
    \/ HandleResourceVisited
    \/ ClickTaskCompleted
    \/ CloseTaskPage
    \/ LoadLearningData
    \/ HandleNextQuestion
SpecTaskPage == InitTaskPage /\ [][NextTaskPage]_vars

\* the learning page, its quiz loaded from either version of the quiz sheet,
\* and a task page that is opened and checks the learning requirements
InitQuizAttempt == InitCompletion
NextQuizAttempt ==
    \/ LoadLearningData
    \/ HandleTopicSelect
    \/ HandleNextQuestionAnySheet
    \/ OpenTaskPage
    \/ LoadTask
    \/ CheckLearningRequirements
    \/ CloseTaskPage
SpecQuizAttempt == InitQuizAttempt /\ [][NextQuizAttempt]_vars

\* a user browsing a chapter of scheduled lessons while the days pass
InitNavigate ==
    /\ UnlockConstruct /\ ProgressIdle /\ FetchIdle /\ SheetIdle
    /\ NavStoreEmpty
    /\ taskPage = NoValue /\ ssVisited = {} /\ route = NoValue
    /\ nowDate = courseStartDate
NextNavigate ==
    \/ ClockTick
    \/ OpenChapterPage
    \/ ClickLessonLink
    \/ EnterUrl
    \/ LoadLesson
    \/ ClickTaskLink
    \/ OpenTaskRoute
    \/ OpenLearningPage
SpecNavigate == InitNavigate /\ [][NextNavigate]_vars

\* one handleTaskCompleted taken step by step while the other flows run
NextTaskAction ==
    \/ TaskActionBegin
    \/ TaskActionTasksFetched
    \/ TaskActionChapterFetched
    \/ EditSheet
    \/ LoadPage
    \/ HandleTopicSelect
SpecTaskAction == InitCompletion /\ [][NextTaskAction]_vars

\* organizeTasks on a drawn sheet
InitOrganize ==
    /\ UnlockIdle /\ ProgressIdle /\ FetchIdle /\ StoreEmpty /\ PageIdle
    /\ OrganizeInputs
    /\ csvMatrix = <<>> /\ csvText = <<>>
    /\ csvScan = NoValue /\ csvRows = NoValue
    /\ quizCallRows = <<>> /\ quizOut = NoValue
NextOrganize == OrganizeTasksCall
SpecOrganize == InitOrganize /\ [][NextOrganize]_vars

\* a parser run over a drawn text, one character at a time
InitScan ==
    /\ UnlockIdle /\ ProgressIdle /\ FetchIdle /\ StoreEmpty /\ PageIdle
    /\ ScanInputs
    /\ orgRows = <<>> /\ orgCall = NoValue /\ csvMatrix = <<>>
    /\ quizCallRows = <<>> /\ quizOut = NoValue
NextScan == CsvBegin \/ CsvStep \/ CsvFinish
SpecScan == InitScan /\ [][NextScan]_vars

\* a drawn sheet written out and parsed back
InitRoundTrip ==
    /\ UnlockIdle /\ ProgressIdle /\ FetchIdle /\ StoreEmpty /\ PageIdle
    /\ RoundTripInputs
    /\ orgRows = <<>> /\ orgCall = NoValue
    /\ quizCallRows = <<>> /\ quizOut = NoValue
NextRoundTrip == ParseSerialized
SpecRoundTrip == InitRoundTrip /\ [][NextRoundTrip]_vars

\* organizeQuiz on a drawn quiz sheet
InitQuiz ==
    /\ UnlockIdle /\ ProgressIdle /\ FetchIdle /\ StoreEmpty /\ PageIdle
    /\ QuizInputs
    /\ orgRows = <<>> /\ orgCall = NoValue
    /\ csvMatrix = <<>> /\ csvText = <<>>
    /\ csvScan = NoValue /\ csvRows = NoValue
NextQuiz == OrganizeQuizCall
SpecQuiz == InitQuiz /\ [][NextQuiz]_vars

\* the four completeness derivations on one lesson
InitReconcile == UnlockIdle /\ ProgressIdle /\ FetchIdle /\ ReconcileInputs /\ SheetIdle /\ PageIdle
NextReconcile == ReconcileCall
SpecReconcile == InitReconcile /\ [][NextReconcile]_vars

\* the cached fetch
InitFetch == UnlockIdle /\ ProgressIdle /\ StoreEmpty /\ FetchIdle /\ SheetIdle /\ PageIdle
NextFetch ==
    \/ FetchCall
    \/ FetchRespondOk
    \/ FetchRespondFail
    \/ Tick
    \/ Publish
SpecFetch == InitFetch /\ [][NextFetch]_vars

\* ======================================================================
\* Properties
\* ======================================================================

RECURSIVE SumXPOver(_, _)
\* the sum of xp over the tasks at the positions idx
SumXPOver(ts, idx) ==
    IF idx = {} THEN 0
    ELSE LET i == CHOOSE j \in idx : TRUE
         IN  ts[i].xp + SumXPOver(ts, idx \ {i})

\* C1: calculateProgress(T, C).completedTasks is the number of tasks of T whose
\* id is in C (so at most |T|), earnedXP is the sum of xp over exactly those
\* tasks, and ids of C that belong to no task of T change no field.
C1_ProgressCountsIntersection ==
    pStats # NoValue =>
        LET done == {i \in DOMAIN pTasks : pTasks[i].id \in Range(pCompleted)}
            own == SelectSeq(pCompleted, LAMBDA id : \E i \in DOMAIN pTasks : pTasks[i].id = id)
        IN  /\ pStats.completedTasks = Cardinality(done)
            /\ pStats.completedTasks <= Len(pTasks)
            /\ pStats.earnedXP = SumXPOver(pTasks, done)
            /\ pStats = calculateProgress(pTasks, own)

\* C1 witness: two tasks, one of them completed, and a completed id that
\* belongs to neither
C1_Witness ==
    /\ pStats # NoValue
    /\ Len(pTasks) = 2
    /\ pTasks[1].id # pTasks[2].id
    /\ pTasks[1].xp # pTasks[2].xp
    /\ \E i \in DOMAIN pCompleted : pCompleted[i] \in ForeignIds
    /\ \E i \in DOMAIN pCompleted : pCompleted[i] = pTasks[2].id
    /\ pStats.completedTasks = 1

\* C4: for a scheduled lesson and a reference date d, isLessonUnlocked is true
\* iff the local calendar day of d is on or after the lesson's unlock day; the
\* first lesson is unlocked on the course start date.
C4_UnlockedIffOnOrAfterUnlockDay ==
    /\ isLessonUnlockedById(unlockSchedule, tzOffset, LesId(1, 1), courseStartDate)
    /\ (unlockCall # NoValue /\ unlockCall.op = "isLessonUnlocked"
            /\ unlockCall.lessonId \in DOMAIN unlockSchedule)
        => ( unlockCall.result <=>
                LocalDay(unlockCall.date, tzOffset)
                    >= LocalDay(unlockSchedule[unlockCall.lessonId].unlockDate, tzOffset) )

\* C4 witness: a query on the unlock day at an earlier time of day than the
\* stored unlock instant, answered "unlocked"
C4_Witness ==
    /\ unlockCall # NoValue
    /\ unlockCall.op = "isLessonUnlocked"
    /\ unlockCall.lessonId \in DOMAIN unlockSchedule
    /\ unlockCall.lessonId # LesId(1, 1)
    /\ unlockCall.date < unlockSchedule[unlockCall.lessonId].unlockDate
    /\ unlockCall.result = TRUE

\* the lessons in schedule order
ScheduleOrder == generateLessonIds

UnlockDayOf(lessonId) == LocalDay(unlockSchedule[lessonId].unlockDate, tzOffset)

\* the unlock day of the lesson at position i (1-based) of the schedule
UnlockDayAt(i) == UnlockDayOf(ScheduleOrder[i].id)

WeekdayOfLocalDay(day) == (WeekdayOfDayZero + day) % 7

\* C5: in schedule order the first unlock date is the course start date and
\* each later one is the first non-Sunday calendar day after the previous
\* one: strictly increasing, one unlock day per lesson, no Sunday but
\* possibly the first.
C5_ScheduleSkipsSundays ==
    LET n == Len(ScheduleOrder)
    IN  /\ DOMAIN unlockSchedule = {ScheduleOrder[i].id : i \in 1..n}
        /\ Cardinality(DOMAIN unlockSchedule) = n
        /\ \A i \in 1..n : unlockSchedule[ScheduleOrder[i].id].globalIndex = i - 1
        /\ unlockSchedule[ScheduleOrder[1].id].unlockDate = courseStartDate
        /\ \A i \in 2..n :
              /\ UnlockDayAt(i) > UnlockDayAt(i - 1)
              /\ WeekdayOfLocalDay(UnlockDayAt(i)) # 0
              /\ \A day \in (UnlockDayAt(i - 1) + 1)..(UnlockDayAt(i) - 1) :
                    WeekdayOfLocalDay(day) = 0

\* C5 witness: a schedule whose first lesson unlocks on a Saturday, so that
\* the second one skips the Sunday
C5_Witness ==
    /\ WeekdayOfLocalDay(UnlockDayAt(1)) = 6
    /\ UnlockDayAt(2) = UnlockDayAt(1) + 2
    /\ unlockCall # NoValue

\* C6: for a lesson id that is not in the schedule, isLessonUnlocked is true,
\* getLessonUnlockDate is null and getDaysUntilUnlock is 0.
C6_UnscheduledFailsOpen ==
    (unlockCall # NoValue /\ unlockCall.lessonId \notin DOMAIN unlockSchedule)
        => CASE unlockCall.op = "isLessonUnlocked" -> unlockCall.result = TRUE
             [] unlockCall.op = "getLessonUnlockDate" -> unlockCall.result = [kind |-> "null"]
             [] unlockCall.op = "getDaysUntilUnlock" -> unlockCall.result = 0

\* C9: isChapterUnlocked is true iff at least one supplied lesson is unlocked
\* on the reference date; false for no lessons; the same for every chapter
\* index.
C9_ChapterUnlockedIffSomeLesson ==
    (unlockCall # NoValue /\ unlockCall.op = "isChapterUnlocked")
        => /\ unlockCall.result <=>
                (\E i \in DOMAIN unlockCall.lessons :
                    isLessonUnlockedById(unlockSchedule, tzOffset,
                                         unlockCall.lessons[i].id, unlockCall.date))
           /\ (unlockCall.lessons = <<>> => unlockCall.result = FALSE)
           /\ \A n \in 0..(MaxChapterNumber + LastChapter) :
                 isChapterUnlocked(unlockSchedule, tzOffset, n,
                                   unlockCall.lessons, unlockCall.date) = unlockCall.result

\* C9 witness: a chapter with one locked and one unlocked lesson, reported
\* unlocked
C9_Witness ==
    /\ unlockCall # NoValue
    /\ unlockCall.op = "isChapterUnlocked"
    /\ Len(unlockCall.lessons) = 2
    /\ ~isLessonUnlockedById(unlockSchedule, tzOffset, unlockCall.lessons[1].id, unlockCall.date)
    /\ isLessonUnlockedById(unlockSchedule, tzOffset, unlockCall.lessons[2].id, unlockCall.date)
    /\ unlockCall.lessons[2].id \in DOMAIN unlockSchedule
    /\ unlockCall.result = TRUE

\* ---------------------------------------------------------------- lessons

\* the lessons a page loaded with loadedRows shows for a course
LoadedLessons(courseId) ==
    LET course == Find(OrganizedSheets[loadedRows], LAMBDA c : c.id = courseId)
    IN  IF course = NoValue THEN {}
        ELSE UNION {Range(course.chapters[i].lessons) :
                        i \in DOMAIN course.chapters}

HasTasks(lesson) == Len(lesson.tasks) > 0

\* the topics sheet holds a topic of the lesson
HasLearningContent(lesson) ==
    \E i \in DOMAIN TopicSheet : TopicSheet[i].lessonId = lesson.id

\* ids recorded as completed in either store
CompletedInEitherStore(courseId) ==
    Range(lsCompletedTasks[courseId]) \cup Range(ssCompletedTasks[courseId])

AllTasksCompleted(courseId, lesson) ==
    /\ HasTasks(lesson)
    /\ \A i \in DOMAIN lesson.tasks :
           lesson.tasks[i].id \in CompletedInEitherStore(courseId)

InCompletedLessonList(courseId, lesson) ==
    lesson.id \in Range(lsCompletedLessons[courseId])

LearningIsDone(courseId, lesson) ==
    lsLearningDone[lesson.id] \/ InCompletedLessonList(courseId, lesson)

\* C2: a lesson with both tasks and learning content is reported complete,
\* by the chapter's lesson card and by the course page, iff all of its tasks
\* are completed or its learning is done.
C2_MixedLessonEitherSuffices ==
    \A courseId \in SheetCourseIds :
        \A lesson \in LoadedLessons(courseId) :
            (HasTasks(lesson) /\ HasLearningContent(lesson)) =>
                LET expected == \/ AllTasksCompleted(courseId, lesson)
                                \/ LearningIsDone(courseId, lesson)
                IN  /\ Card_isLessonFullyComplete(courseId, lesson,
                                                  lessonHasLearning) = expected
                    /\ CoursePage_isLessonFullyComplete(courseId, lesson)
                           = expected

\* C3: every read of a course's completed-task ids that feeds a progress or
\* completeness derivation returns the union of the localStorage list and
\* the sessionStorage list.
C3_ReadsAreUnionOfStores ==
    \A courseId \in SheetCourseIds :
        /\ Range(CoursePage_getCompletedTasks(courseId))
               = CompletedInEitherStore(courseId)
        /\ Range(ChapterProgress_completedTaskIds(courseId))
               = CompletedInEitherStore(courseId)
        /\ Range(LessonPage_getCompletedTasks(courseId))
               = CompletedInEitherStore(courseId)
        /\ \A lesson \in LoadedLessons(courseId) :
               Range(getLessonCompletedTasks(courseId, lesson))
                   = CompletedInEitherStore(courseId)
                         \cap {lesson.tasks[i].id : i \in DOMAIN lesson.tasks}

C8_TaskOnlyAllTasks ==
    \A courseId \in SheetCourseIds :
        \A lesson \in LoadedLessons(courseId) :
            (HasTasks(lesson) /\ ~HasLearningContent(lesson)) =>
                LET expected == AllTasksCompleted(courseId, lesson)
                IN  /\ Card_isLessonFullyComplete(courseId, lesson,
                                                  lessonHasLearning) = expected
                    /\ HeaderLessonIsComplete(courseId, lesson,
                                              lessonHasLearning) = expected

\* ------------------------------------------------------------------ fetch

\* what a call found in the cache was younger than thirty minutes
SawFreshEntry(c) ==
    c.seen # NoValue /\ c.at - c.seen.timestamp < 30 * 60 * 1000

CallsFollowCache ==
    \A i \in DOMAIN calls :
        LET c == calls[i]
        IN  IF SawFreshEntry(c)
            THEN /\ c.requests = 0
                 /\ c.pc = "returned"
                 /\ c.result = c.seen.data
                 /\ c.stored = NoValue
            ELSE /\ c.requests = 1
                 /\ c.pc = "failed" => c.stored = NoValue /\ c.result = NoValue
                 /\ c.pc = "returned" =>
                        /\ c.stored # NoValue
                        /\ c.stored.data = c.result

\* a call that returns from its request leaves its rows in the cache,
\* stamped with the time of the return; every other step leaves the cache
SuccessOverwritesEntry ==
    /\ \A i \in DOMAIN calls :
           (calls[i].pc = "awaiting" /\ calls'[i].pc = "returned") =>
               /\ calls'[i].result = RowsOf(calls[i].source, published)
               /\ cache'[calls[i].source] =
                      [data |-> calls'[i].result, timestamp |-> now]
    /\ (\A i \in DOMAIN calls :
            calls[i].pc = "awaiting" => calls'[i].pc # "returned")
           => cache' = cache

\* C10: a fetch returns the cached rows without a request iff an entry for
\* its source exists and is less than 30 minutes old; otherwise it issues
\* exactly one request and, on success, overwrites the entry with the newly
\* parsed rows stamped with the current time.
C10_CacheHitIffFresh == [](CallsFollowCache) /\ [][SuccessOverwritesEntry]_vars

\* a call stored its rows and a later call, made while the entry was still
\* fresh, returned them without a request
C10_Witness ==
    \E i, j \in DOMAIN calls :
        /\ i < j
        /\ calls[i].stored # NoValue
        /\ calls[j].seen = calls[i].stored
        /\ calls[j].at > calls[i].stored.timestamp
        /\ calls[j].requests = 0
        /\ calls[j].result = calls[i].result

\* C12: within one handleTaskCompleted the task id is in the durable list
\* before the all-tasks-done check runs and the lesson id is in the
\* completed-lesson list before the chapter-complete check runs; each check
\* sees the value written, also across the awaits of the action.
C12_WritesPrecedeChecks ==
    taskAction # NoValue =>
        LET a == taskAction
        IN  /\ Includes(lsCompletedTasks[a.courseId], a.taskId)
            /\ a.taskCheck # NoValue =>
                   a.taskCheck.inArray /\ a.taskCheck.inStore
            /\ (a.taskCheck # NoValue /\ a.taskCheck.allCompleted) =>
                   Includes(lsCompletedLessons[a.courseId], a.lessonId)
            /\ a.chapterCheck # NoValue => a.chapterCheck.sawLesson

\* both checks of one action have run, the second after its own await
C12_Witness ==
    /\ taskAction # NoValue
    /\ taskAction.pc = "done"
    /\ taskAction.taskCheck # NoValue
    /\ taskAction.taskCheck.allCompleted
    /\ taskAction.chapterCheck # NoValue
    /\ taskAction.chapterCheck.sawLesson
    /\ Len(lsCompletedLessons[taskAction.courseId]) > 1

\* C13: every user action that writes a completion marker dispatches
\* 'progress:updated' after the write and before the action ends.
C13_WritesAreNotified ==
    IF lastAction = NoValue THEN TRUE
    ELSE lastAction.wrote => lastAction.dispatched

\* the rows of a sheet that carry the given ids
RowsOfCourse(rows, courseId) ==
    SelectSeq(rows, LAMBDA r : r.courseId = courseId)
RowsOfChapter(rows, courseId, chapterId) ==
    SelectSeq(rows, LAMBDA r : r.courseId = courseId /\ r.chapterId = chapterId)
RowsOfLesson(rows, courseId, chapterId, lessonId) ==
    SelectSeq(rows, LAMBDA r : /\ r.courseId = courseId
                               /\ r.chapterId = chapterId
                               /\ r.lessonId = lessonId)
IdsOf(entities) == [i \in DOMAIN entities |-> entities[i].id]

\* C15: organizeTasks creates exactly one course per distinct courseId,
\* one chapter per distinct (courseId, chapterId) and one lesson per
\* distinct (courseId, chapterId, lessonId), each listed under its parent
\* in first-seen order with the name of the first row that introduced it,
\* and one task per row, in row order.
C15_OneEntityPerIdFirstSeen ==
    orgCall # NoValue =>
      /\ IdsOf(orgCall.courses) =
             Dedup([i \in DOMAIN orgRows |-> orgRows[i].courseId])
      /\ \A ci \in DOMAIN orgCall.courses :
           LET course == orgCall.courses[ci]
               cRows == RowsOfCourse(orgRows, course.id)
           IN
           /\ course.name = cRows[1].courseName
           /\ IdsOf(course.chapters) =
                  Dedup([i \in DOMAIN cRows |-> cRows[i].chapterId])
           /\ \A hi \in DOMAIN course.chapters :
                LET chapter == course.chapters[hi]
                    hRows == RowsOfChapter(orgRows, course.id, chapter.id)
                IN
                /\ chapter.name = hRows[1].chapterName
                /\ IdsOf(chapter.lessons) =
                       Dedup([i \in DOMAIN hRows |-> hRows[i].lessonId])
                /\ \A li \in DOMAIN chapter.lessons :
                     LET lesson == chapter.lessons[li]
                         lRows == RowsOfLesson(orgRows, course.id, chapter.id,
                                               lesson.id)
                     IN  /\ lesson.name = lRows[1].lessonName
                         /\ IdsOf(lesson.tasks) =
                                [i \in DOMAIN lRows |-> lRows[i].taskId]

\* C16: for all id strings, also ids that contain '-', every task sits
\* under a lesson, chapter and course whose ids are the task's own, and one
\* chapterId under two courseIds gives a chapter under each of the courses.
C16_TasksUnderOwnParents ==
    orgCall # NoValue =>
      /\ \A ci \in DOMAIN orgCall.courses :
           \A hi \in DOMAIN orgCall.courses[ci].chapters :
             \A li \in DOMAIN orgCall.courses[ci].chapters[hi].lessons :
               LET course == orgCall.courses[ci]
                   chapter == course.chapters[hi]
                   lesson == chapter.lessons[li]
               IN  \A ti \in DOMAIN lesson.tasks :
                     /\ lesson.tasks[ti].lessonId = lesson.id
                     /\ lesson.tasks[ti].chapterId = chapter.id
                     /\ lesson.tasks[ti].courseId = course.id
      /\ \A i, j \in DOMAIN orgRows :
           (/\ orgRows[i].chapterId = orgRows[j].chapterId
            /\ orgRows[i].courseId # orgRows[j].courseId) =>
               /\ findChapter(orgCall.courses, orgRows[i].courseId,
                              orgRows[i].chapterId) # NoValue
               /\ findChapter(orgCall.courses, orgRows[j].courseId,
                              orgRows[j].chapterId) # NoValue

\* the character the scanner is at
ScanChar == csvScan.text[csvScan.i]
ScanNextIs(ch) ==
    csvScan.i + 1 <= Len(csvScan.text) /\ csvScan.text[csvScan.i + 1] = ch

\* a step taken inside a quoted field: a comma, CR or LF goes into the
\* field and ends neither the field nor the row; two quotes give one quote
QuotedCharIsContent ==
    IF csvScan = NoValue \/ csvScan' = csvScan THEN TRUE
    ELSE csvScan.inQuotes =>
           /\ ScanChar \in {COMMA, CR, LF} =>
                csvScan' = [csvScan EXCEPT !.curField = Append(@, ScanChar),
                                           !.i = @ + 1]
           /\ (ScanChar = QUOTE /\ ScanNextIs(QUOTE)) =>
                csvScan' = [csvScan EXCEPT !.curField = Append(@, QUOTE),
                                           !.i = @ + 2]

\* a leading byte-order mark is not scanned
BomIsStripped ==
    (csvScan # NoValue /\ csvText # <<>> /\ Head(csvText) = BOM) =>
        csvScan.text = Tail(csvText)

\* a text that is one quoted field of commas, line ends and letters comes
\* back as one row of one field (learning.ts trims the field's ends)
QuotedFieldIsOneField ==
    csvRows # NoValue =>
      LET text == StripBOM(csvText)
          content == SubSeq(text, 2, Len(text) - 1)
      IN  (/\ Len(text) >= 3
           /\ text[1] = QUOTE /\ text[Len(text)] = QUOTE
           /\ \A k \in DOMAIN content : content[k] \in {"a", COMMA, CR, LF}) =>
             IF csvRows.lib = "csv"
             THEN csvRows.rows = << <<content>> >>
             ELSE csvRows.rows = PopEmptyRows(<< <<Trim(content)>> >>)

C18_ParseSerializeRoundTrip ==
    csvRows # NoValue => csvRows.rows = csvMatrix

\* C19: every returned row with fewer fields than the header row is
\* right-padded with empty fields up to the header row's length.
C19_ShortRowsArePadded ==
    csvRows # NoValue =>
        \A k \in DOMAIN csvRows.rows :
            Len(csvRows.rows[k]) >= Len(csvRows.rows[1])

\* C20: organizeQuiz returns one question per row, in row order; two rows
\* that share a questionId both appear with that id, and a warning that
\* names the id is emitted.
C20_QuizKeepsEveryRow ==
    quizOut # NoValue =>
      /\ Len(quizOut.questions) = Len(quizCallRows)
      /\ \A i \in DOMAIN quizCallRows :
           /\ quizOut.questions[i].question = quizCallRows[i].question
           /\ quizCallRows[i].questionId # "" =>
                quizOut.questions[i].id = quizCallRows[i].questionId
      /\ \A i, j \in DOMAIN quizCallRows :
           (/\ i < j
            /\ quizCallRows[i].questionId # ""
            /\ quizCallRows[i].questionId = quizCallRows[j].questionId) =>
               \E w \in DOMAIN quizOut.warnings :
                   Includes(quizOut.warnings[w].duplicateIds,
                            quizCallRows[i].questionId)

\* three rows, the first and the last with questionId q1: three questions
\* come back, two of them with id q1, and q1 is reported
C20_Witness ==
    /\ quizOut # NoValue
    /\ Len(quizOut.questions) = 3
    /\ quizOut.questions[1].id = "q1"
    /\ quizOut.questions[2].id = "q2"
    /\ quizOut.questions[3].id = "q1"
    /\ quizOut.warnings = << [duplicateIds |-> <<"q1">>] >>

\* a percentage kept as a fraction has the value v
PercentageIs(p, v) == p[2] > 0 /\ p[1] = v * p[2]

\* C22: calculateProgress gives completionPercentage 0 for an empty task
\* list whatever the completed ids are, xpPercentage 0 when totalXP is 0,
\* and completionPercentage 100 for a non-empty task list whose ids are all
\* among the completed ids.
C22_PercentagesAtTheEnds ==
    pStats # NoValue =>
      /\ pTasks = <<>> => PercentageIs(pStats.completionPercentage, 0)
      /\ pStats.totalXP = 0 => PercentageIs(pStats.xpPercentage, 0)
      /\ (/\ pTasks # <<>>
          /\ \A i \in DOMAIN pTasks : Includes(pCompleted, pTasks[i].id)) =>
             PercentageIs(pStats.completionPercentage, 100)

\* two tasks worth no XP, both completed: 100 percent done, 0 percent XP
C22_Witness ==
    /\ pStats # NoValue
    /\ Len(pTasks) = 2
    /\ pTasks[1].id # pTasks[2].id
    /\ \A i \in DOMAIN pTasks : Includes(pCompleted, pTasks[i].id)
    /\ pStats.totalXP = 0
    /\ PercentageIs(pStats.completionPercentage, 100)
    /\ PercentageIs(pStats.xpPercentage, 0)

\* C26: for every persisted completion state and every lesson, the course
\* page, the courses index, the chapter header count and the chapter
\* lesson card derive the same lesson-complete boolean.
C26_DerivationsAgree ==
    reconcileCall # NoValue =>
        /\ reconcileCall.coursePage = reconcileCall.coursesIndex
        /\ reconcileCall.coursesIndex = reconcileCall.header
        /\ reconcileCall.header = reconcileCall.card

\* every topic the sheet lists for the lesson is in its watched-topic list
AllTopicsWatched(lessonId) ==
    LET topics == getTopicsForLesson(TopicSheet, lessonId)
    IN  /\ Len(topics) > 0
        /\ \A i \in DOMAIN topics :
               Includes(lsWatchedTopics[lessonId], topics[i].topicId)

\* C29: in every state reached through the learning page, a lesson whose
\* topics are all in its watched-topic list has its learning-done flag set
\* and its id in the completed-lesson list, whether the last topic was
\* marked by selecting it or by loading the page with its id in the URL.
C29_AllWatchedSetsLearningDone ==
    \A lessonId \in LessonIds :
        AllTopicsWatched(lessonId) =>
            /\ lsLearningDone[lessonId]
            /\ \E courseId \in RouteCourseIds :
                   Includes(lsCompletedLessons[courseId], lessonId)

NoDuplicates(s) == \A i, j \in DOMAIN s : i # j => s[i] # s[j]

\* the list as it was, or with one id added at its end that it did not hold
SameOrOneNewId(before, after) ==
    \/ after = before
    \/ \E x \in Range(after) : ~Includes(before, x) /\ after = Append(before, x)

ListsHoldNoDuplicates ==
    /\ \A c \in SheetCourseIds :
           NoDuplicates(lsCompletedTasks[c]) /\ NoDuplicates(ssCompletedTasks[c])
    /\ \A c \in RouteCourseIds : NoDuplicates(lsCompletedLessons[c])
    /\ \A l \in LessonIds : NoDuplicates(lsWatchedTopics[l])

ListsOnlyGrow ==
    /\ \A c \in SheetCourseIds :
           /\ SameOrOneNewId(lsCompletedTasks[c], lsCompletedTasks'[c])
           /\ SameOrOneNewId(ssCompletedTasks[c], ssCompletedTasks'[c])
    /\ \A c \in RouteCourseIds :
           SameOrOneNewId(lsCompletedLessons[c], lsCompletedLessons'[c])
    /\ \A l \in LessonIds :
           SameOrOneNewId(lsWatchedTopics[l], lsWatchedTopics'[l])

\* C30: the completed-task list, the completed-lesson list and the
\* watched-topic list hold no id twice and only grow: no operation removes
\* an id, and marking an id that is already there leaves the list as it was.
C30_ListsGrowWithoutDuplicates ==
    [](ListsHoldNoDuplicates) /\ [][ListsOnlyGrow]_vars

\* every list holds two ids and the last task completion wrote nothing,
\* its task and its lesson being marked already
C30_Witness ==
    /\ Len(lsCompletedTasks["cA"]) >= 2
    /\ Len(lsCompletedLessons["cA"]) = 2
    /\ Len(lsWatchedTopics["L1"]) = 2
    /\ IF lastAction = NoValue THEN FALSE
       ELSE ~lastAction.wrote /\ ~lastAction.dispatched

\* the lesson a task of the sheet belongs to
TaskLessonId(taskId) ==
    Find(TaskSheetV2, LAMBDA r : r.taskId = taskId).lessonId

\* the persisted score is a whole number
ScoreIsInteger(score) == score.num % score.den = 0
\* the persisted score lies between 0 and 100
ScoreInRange(score) == score.num >= 0 /\ score.num <= 100 * score.den

\* C21: after every quiz submission the persisted quiz-passed flag of the
\* lesson is "true" exactly when 100 * correct / questions is at least 80,
\* and the persisted score is an integer between 0 and 100
C21_SubmissionStoresFlagAndIntegerScore ==
    \A l \in LessonIds :
        lsQuizScore[l] # NoValue =>
            /\ (lsQuizPassed[l] = "true") = ScorePasses(lsQuizScore[l])
            /\ ScoreIsInteger(lsQuizScore[l])
            /\ ScoreInRange(lsQuizScore[l])

\* a step that puts a task into the durable completed-task list although
\* its lesson has learning content and the quiz-passed flag is not "true"
CompletedBehindTheGate ==
    \E c \in SheetCourseIds, t \in TaskIds :
        /\ ~Includes(lsCompletedTasks[c], t)
        /\ Includes(lsCompletedTasks'[c], t)
        /\ Len(getTopicsForLesson(TopicSheet, TaskLessonId(t))) > 0
        /\ ~isQuizPassed(TaskLessonId(t))

\* C23: a task of a lesson with learning content is never marked completed
\* while the lesson's quiz-passed flag is false, however the task load, the
\* learning-requirements check (a failed topics fetch included) and the
\* click on Task Completed interleave
C23_NoCompletionBeforeQuizPassed == [][~CompletedBehindTheGate]_vars

\* every pdf and every form of the page's task has its visited flag
AllRequiredVisited(p) ==
    \A id \in requiredResourceIds(p.task) : <<p.taskId, id>> \in ssVisited

FlagFollowsLastAttempt ==
    \A l \in LessonIds :
        IF lsQuizScore[l] = NoValue THEN lsQuizPassed[l] = "unset"
        ELSE (lsQuizPassed[l] = "true") = ScorePasses(lsQuizScore[l])

\* a requirements check that finds learning content puts up the blocker
\* exactly when the flag is not "true"
CheckReadsTheFlag ==
    (/\ taskPage # NoValue /\ taskPage' # NoValue
     /\ taskPage.requirements = "pending"
     /\ taskPage'.requirements = "done"
     /\ taskPage'.hasLearningContent)
    => (PageBlocker(taskPage') <=> ~isQuizPassed(taskPage.task.lessonId))

LessonTaskIds(rows, lessonId) ==
    {rows[i].taskId : i \in {j \in DOMAIN rows : rows[j].lessonId = lessonId}}

\* a step of handleTaskCompleted that saves the last outstanding task of a
\* lesson: the task is new in the durable list and every task the sheet
\* lists for its lesson is then in the durable or in the session list
CompletesLastTask(c, t) ==
    /\ ~Includes(lsCompletedTasks[c], t)
    /\ Includes(lsCompletedTasks'[c], t)
    /\ t \in LessonTaskIds(sheetRows, TaskLessonId(t))
    /\ \A u \in LessonTaskIds(sheetRows, TaskLessonId(t)) :
           \/ Includes(lsCompletedTasks'[c], u)
           \/ Includes(ssCompletedTasks'[c], u)

\* C27: when a task-completion action that completes the last outstanding
\* task of a lesson has finished, the lesson id is in the course's
\* completed-lesson list, whatever the fetch inside the action returned and
\* whichever store holds the earlier completions
C27_LastTaskCompletesLesson ==
    [][\A c \in SheetCourseIds, t \in TaskIds :
           CompletesLastTask(c, t) =>
               Includes(lsCompletedLessons'[c], TaskLessonId(t))]_vars

\* the page shown belongs to a lesson that isLessonUnlocked reports unlocked
OpenPageIsUnlocked ==
    route # NoValue =>
        (route.page \in LessonRoutes /\ route.loaded
            => isLessonUnlocked(route.lessonId))

\* a step writes a watched-topic marker only for an unlocked lesson
MarkerOnlyWhenUnlocked ==
    \A l \in NavLessonIds :
        lsWatchedTopics'[l] # lsWatchedTopics[l] => isLessonUnlocked(l)

\* C25: while isLessonUnlocked reports a scheduled lesson as locked for the
\* current date, no navigation opens its lesson page, learning page or task
\* pages, and no completion marker is written for it
C25_LockedLessonStaysClosed ==
    [](OpenPageIsUnlocked) /\ [][MarkerOnlyWhenUnlocked]_vars

\* C11: two fetches of one source that overlap during a cache miss both
\* complete, return equal rows, and leave those rows in the cache
\* whichever response is written last.
C11_OverlappingFetchesAgree ==
    \A j \in DOMAIN calls :
        \A i \in calls[j].overlaps :
            (calls[i].pc = "returned" /\ calls[j].pc = "returned") =>
                /\ calls[i].result = calls[j].result
                /\ (\A k \in DOMAIN calls :
                        calls[k].source = calls[j].source
                            => calls[k].pc # "awaiting")
                       => cache[calls[j].source].data = calls[j].result

\* a call that was awaiting a response has failed in this step
FailsNow(i) == calls[i].pc = "awaiting" /\ calls'[i].pc = "failed"

FailureLeavesCache ==
    /\ \A i \in DOMAIN calls :
           FailsNow(i) =>
               /\ cache' = cache
               /\ calls'[i].requests = 1
               /\ calls'[i].result = NoValue
               /\ calls'[i].stored = NoValue
    \* a failed call is over: no retry
    /\ \A i \in DOMAIN calls :
           calls[i].pc = "failed" => calls'[i] = calls[i]

\* C14: a fetch whose request throws or whose response is not ok rejects,
\* issues no second request and leaves its source's cache entry unchanged.
C14_FailureRejectsOnce == [][FailureLeavesCache]_vars

\* a fetch that found an expired entry has failed and the entry is still
\* the one it found
C14_Witness ==
    \E i \in DOMAIN calls :
        /\ calls[i].pc = "failed"
        /\ calls[i].requests = 1
        /\ calls[i].seen # NoValue
        /\ cache[calls[i].source] = calls[i].seen

====
